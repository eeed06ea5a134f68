---------------------------- MODULE SkillAccept -----------------------------
(***************************************************************************)
(* The accept of a skill draft: once a person approved the proposal, the   *)
(* draft's files replace the skill's directory, through a staging tree, a  *)
(* backup and a journal beside it, so that an accept that was interrupted  *)
(* can be finished by the next one (skill_evolution_accept.py).            *)
(*                                                                         *)
(* One skill directory, `dest`, and the proposals made for it.  An action  *)
(* is one operation on the file system or one statement of the database;   *)
(* an acceptor is a request of POST /v1/skill-evolutions/{id}/accept, and  *)
(* it may die between any two of them.  recover_accept, which resumes the  *)
(* journal of whichever proposal it finds, is called by tests only.        *)
(***************************************************************************)
EXTENDS Integers, FiniteSets

CONSTANTS
    Proposals,      \* skill_evolution rows of the inbox, all for this skill
    Acceptors,      \* requests that may be under way at once
    BaseOf,         \* base_digest of a proposal: the tree it was drafted on
    NoBase,         \* ... a proposal that has none
    Original,       \* the skill as it was before any of them
    Absent,         \* no such directory
    NoJournal, NoProposal,
    Faults,         \* what goes wrong: a "crash", or a "tear": a crash while a tree is
                    \* being removed
    MaxFaults       \* bound

Trees == Proposals \cup {Original}
JournalStates == {"preparing", "staged", "backup", "swapped", "committed"}

ASSUME BasesAssumption == BaseOf \in [Proposals -> Trees \cup {NoBase}]
ASSUME MarksAssumption ==
    /\ Original \notin Proposals /\ NoBase \notin Trees
    /\ NoProposal \notin Proposals
    /\ Absent \notin [of : Trees, whole : BOOLEAN]
    /\ NoJournal \notin [state : JournalStates, of : Proposals]
ASSUME FaultsAssumption == Faults \subseteq {"crash", "tear"} /\ MaxFaults \in Nat

VARIABLES
    decision,               \* pass_proposals.status of a proposal
    applied,                \* proposals whose payload says applied
    dest, staging, backup,  \* the three directories: a tree or Absent
    journal,                \* the journal file
    pc, draft,         \* acceptors: control state, proposal, `applied` as it was read
    resuming,               \* ... whether it is finishing what a journal says
    done,                   \* ... whether the draft is marked already, before a cleanup
    had,                    \* the skill has been installed at some time
    faults

inbox == <<decision, applied>>
disk == <<dest, staging, backup, journal>>
local == <<pc, draft, resuming, done>>
vars == <<inbox, disk, local, had, faults>>

Tree(p, whole) == [of |-> p, whole |-> whole]
Directories == [of : Trees, whole : BOOLEAN] \cup {Absent}
Journals == [state : JournalStates, of : Proposals] \cup {NoJournal}

Labels == {"idle", "look", "recover", "lookAgain", "discard", "forget", "wipeStaging", "prepare",
           "write", "stage", "wipeBackup", "moveAway", "noteBackup", "install", "noteSwap",
           "dropStaging", "dropBackup", "commit", "unlink", "mark"}

TypeOK ==
    /\ decision \in [Proposals -> {"PENDING", "APPROVED", "REJECTED"}]
    /\ applied \subseteq Proposals
    /\ {dest, staging, backup} \subseteq Directories
    /\ journal \in Journals
    /\ pc \in [Acceptors -> Labels]
    /\ draft \in [Acceptors -> Proposals \cup {NoProposal}]
    /\ resuming \in [Acceptors -> BOOLEAN]
    /\ done \in [Acceptors -> BOOLEAN]
    /\ had \in BOOLEAN
    /\ faults \in Nat

Init ==
    /\ decision = [p \in Proposals |-> "PENDING"]
    /\ applied = {}
    /\ dest \in {Absent, Tree(Original, TRUE)}
    /\ staging = Absent /\ backup = Absent /\ journal = NoJournal
    /\ pc = [a \in Acceptors |-> "idle"]
    /\ draft = [a \in Acceptors |-> NoProposal]
    /\ resuming = [a \in Acceptors |-> FALSE]
    /\ done = [a \in Acceptors |-> FALSE]
    /\ had = (dest # Absent)
    /\ faults = 0

-----------------------------------------------------------------------------
(* The decision of a person: pass_store.decide, whose update compares the  *)
(* status with PENDING.                                                    *)
Decide(p) ==
    /\ decision[p] = "PENDING"
    /\ \E d \in {"APPROVED", "REJECTED"} : decision' = [decision EXCEPT ![p] = d]
    /\ UNCHANGED <<applied, disk, local, had, faults>>

-----------------------------------------------------------------------------
(* accept_approved: the checks.                                            *)

At(a, label) == pc' = [pc EXCEPT ![a] = label]
Reach(a, from, to) == pc[a] = from /\ At(a, to)

Cleared(a) ==
    /\ draft' = [draft EXCEPT ![a] = NoProposal]
    /\ resuming' = [resuming EXCEPT ![a] = FALSE]
    /\ done' = [done EXCEPT ![a] = FALSE]

(* Slip: a decided proposal is enough, whichever way it was decided.       *)
BeginsDecided(a, p) ==
    /\ decision[p] # "PENDING"
    /\ p \notin applied
    /\ Reach(a, "idle", "look")
    /\ draft' = [draft EXCEPT ![a] = p]
    /\ UNCHANGED <<inbox, disk, resuming, done, had, faults>>

(* Slip: a journal is taken to mean that another accept is under way.      *)
RefusesWhileJournaled(a, p) ==
    /\ decision[p] = "APPROVED"
    /\ p \notin applied
    /\ journal = NoJournal
    /\ Reach(a, "idle", "look")
    /\ draft' = [draft EXCEPT ![a] = p]
    /\ UNCHANGED <<inbox, disk, resuming, done, had, faults>>

(* _load_proposal and _gate_hitl_and_digest: a proposal that is not        *)
(* approved, or is marked applied, gets no further.  Validation refuses a  *)
(* draft for what is in it: such a proposal is never begun.                *)
Begin(a, p) ==
    /\ decision[p] = "APPROVED"
    /\ p \notin applied
    /\ Reach(a, "idle", "look")
    /\ draft' = [draft EXCEPT ![a] = p]
    /\ UNCHANGED <<inbox, disk, resuming, done, had, faults>>

Installed(p) == dest = Tree(p, TRUE)

(* _stale_on_disk: a directory that is there must be the baseline.         *)
Stale(p) == dest # Absent /\ BaseOf[p] # NoBase /\ dest # Tree(BaseOf[p], TRUE)

(* Files that match the draft are marked as they are; files that match     *)
(* neither the draft nor its baseline refuse the request.                  *)
Look(a) ==
    LET p == draft[a]
    IN  /\ pc[a] = "look"
        /\ \/ Installed(p) /\ At(a, "mark") /\ done' = [done EXCEPT ![a] = TRUE]
              /\ UNCHANGED <<draft, resuming>>
           \/ ~Installed(p) /\ Stale(p) /\ At(a, "idle") /\ Cleared(a)
           \/ ~Installed(p) /\ ~Stale(p) /\ At(a, "recover")
              /\ UNCHANGED <<draft, resuming, done>>
        /\ UNCHANGED <<inbox, disk, had, faults>>

(* Slip: a staging tree is taken to be complete when its journal is there. *)
ResumesEagerly(state) ==
    CASE state \in {"preparing", "staged"} -> "wipeBackup"
      [] state = "backup" -> "install"
      [] state \in {"swapped", "committed"} -> "dropStaging"

(* _resume_journal: where each state of the journal makes it go on.        *)
ResumeAt(state) ==
    CASE state = "preparing" -> "discard"
      [] state = "staged" -> "wipeBackup"
      [] state = "backup" -> "install"
      [] state \in {"swapped", "committed"} -> "dropStaging"

(* _recover_if_needed: only a journal of this very draft is resumed.       *)
Recover(a) ==
    /\ pc[a] = "recover"
    /\ IF journal # NoJournal /\ journal.of = draft[a]
       THEN At(a, ResumeAt(journal.state)) /\ resuming' = [resuming EXCEPT ![a] = TRUE]
       ELSE At(a, "lookAgain") /\ UNCHANGED resuming
    /\ UNCHANGED <<inbox, disk, draft, done, had, faults>>

LookAgain(a) ==
    /\ pc[a] = "lookAgain"
    /\ At(a, IF Installed(draft[a]) THEN "mark" ELSE "wipeStaging")
    /\ done' = [done EXCEPT ![a] = Installed(draft[a])]
    /\ resuming' = [resuming EXCEPT ![a] = FALSE]
    /\ UNCHANGED <<inbox, disk, draft, had, faults>>

-----------------------------------------------------------------------------
(* The steps that touch the disk.  A rename onto a directory that is there *)
(* and is not empty, or of one that is not there, raises and ends the      *)
(* request.                                                                *)

DiskStep(a) == UNCHANGED <<inbox, draft, resuming, done, had, faults>>
Journaled(a, state) == journal' = [state |-> state, of |-> draft[a]]

(* _atomic_commit                                                          *)
WipeStaging(a) ==
    /\ Reach(a, "wipeStaging", "prepare")
    /\ staging' = Absent
    /\ DiskStep(a) /\ UNCHANGED <<dest, backup, journal>>

Prepare(a) ==
    /\ Reach(a, "prepare", "write")
    /\ Journaled(a, "preparing")
    /\ DiskStep(a) /\ UNCHANGED <<dest, staging, backup>>

(* _write_tree, file by file.                                              *)
WriteSome(a) ==
    /\ pc[a] = "write"
    /\ staging' = Tree(draft[a], FALSE)
    /\ DiskStep(a) /\ UNCHANGED <<pc, dest, backup, journal>>

WriteRest(a) ==
    /\ Reach(a, "write", "stage")
    /\ staging' = Tree(draft[a], TRUE)
    /\ DiskStep(a) /\ UNCHANGED <<dest, backup, journal>>

(* Slip: the proposal is marked before its files are installed.            *)
MarksWhenStaged(a) ==
    /\ Reach(a, "stage", "wipeBackup")
    /\ Journaled(a, "staged")
    /\ applied' = applied \cup {draft[a]}
    /\ UNCHANGED <<decision, dest, staging, backup, draft, resuming, done, had, faults>>

Stage(a) ==
    /\ Reach(a, "stage", "wipeBackup")
    /\ Journaled(a, "staged")
    /\ DiskStep(a) /\ UNCHANGED <<dest, staging, backup>>

(* _swap                                                                   *)
WipeBackup(a) ==
    /\ pc[a] = "wipeBackup"
    /\ At(a, IF dest # Absent THEN "moveAway" ELSE "install")
    /\ backup' = Absent
    /\ DiskStep(a) /\ UNCHANGED <<dest, staging, journal>>

(* Slip: the directory is removed, not moved away.                         *)
RemovesFirst(a) ==
    /\ dest # Absent /\ backup = Absent
    /\ Reach(a, "moveAway", "noteBackup")
    /\ dest' = Absent
    /\ DiskStep(a) /\ UNCHANGED <<staging, backup, journal>>

MoveAway(a) ==
    /\ dest # Absent /\ backup = Absent
    /\ Reach(a, "moveAway", "noteBackup")
    /\ backup' = dest /\ dest' = Absent
    /\ DiskStep(a) /\ UNCHANGED <<staging, journal>>

NoteBackup(a) ==
    /\ Reach(a, "noteBackup", "install")
    /\ Journaled(a, "backup")
    /\ DiskStep(a) /\ UNCHANGED <<dest, staging, backup>>

Install(a) ==
    /\ staging # Absent /\ dest = Absent
    /\ Reach(a, "install", "noteSwap")
    /\ dest' = staging /\ staging' = Absent
    /\ had' = TRUE
    /\ UNCHANGED <<inbox, backup, journal, draft, resuming, done, faults>>

(* A journal in state `backup` whose staging tree is gone: it was          *)
(* installed before the crash.                                             *)
InstalledBefore(a) ==
    /\ staging = Absent /\ resuming[a]
    /\ journal # NoJournal /\ journal.state = "backup"
    /\ Reach(a, "install", "noteSwap")
    /\ DiskStep(a) /\ UNCHANGED disk

NoteSwap(a) ==
    /\ Reach(a, "noteSwap", "dropStaging")
    /\ Journaled(a, "swapped")
    /\ DiskStep(a) /\ UNCHANGED <<dest, staging, backup>>

(* The rename raises.                                                      *)
RenameFails(a) ==
    /\ \/ pc[a] = "moveAway" /\ (dest = Absent \/ backup # Absent)
       \/ pc[a] = "install" /\ staging # Absent /\ dest # Absent
       \/ pc[a] = "install" /\ staging = Absent
          /\ ~(resuming[a] /\ journal # NoJournal /\ journal.state = "backup")
    /\ At(a, "idle") /\ Cleared(a)
    /\ UNCHANGED <<inbox, disk, had, faults>>

(* _cleanup                                                                *)
DropStaging(a) ==
    /\ Reach(a, "dropStaging", "dropBackup")
    /\ staging' = Absent
    /\ DiskStep(a) /\ UNCHANGED <<dest, backup, journal>>

DropBackup(a) ==
    /\ Reach(a, "dropBackup", "commit")
    /\ backup' = Absent
    /\ DiskStep(a) /\ UNCHANGED <<dest, staging, journal>>

Commit(a) ==
    /\ Reach(a, "commit", "unlink")
    /\ journal' = IF journal = NoJournal THEN NoJournal ELSE [journal EXCEPT !.state = "committed"]
    /\ DiskStep(a) /\ UNCHANGED <<dest, staging, backup>>

(* The journal is removed.  What follows depends on who cleaned up: a      *)
(* commit marks the proposal now, one that found the files in place has    *)
(* marked it, a recovery looks at the disk again.                          *)
Unlink(a) ==
    /\ pc[a] = "unlink"
    /\ journal' = NoJournal
    /\ \/ resuming[a] /\ At(a, "lookAgain") /\ UNCHANGED <<draft, resuming, done>>
       \/ ~resuming[a] /\ done[a] /\ At(a, "idle") /\ Cleared(a)
       \/ ~resuming[a] /\ ~done[a] /\ At(a, "mark") /\ UNCHANGED <<draft, resuming, done>>
    /\ UNCHANGED <<inbox, dest, staging, backup, had, faults>>

(* Recovery of a journal in state `preparing`.                             *)
Discard(a) ==
    /\ Reach(a, "discard", "forget")
    /\ staging' = Absent
    /\ DiskStep(a) /\ UNCHANGED <<dest, backup, journal>>

Forget(a) ==
    /\ Reach(a, "forget", "lookAgain")
    /\ journal' = NoJournal
    /\ DiskStep(a) /\ UNCHANGED <<dest, staging, backup>>

(* _mark_applied writes the payload that was read, with `applied` set.     *)
Mark(a) ==
    /\ pc[a] = "mark"
    /\ applied' = applied \cup {draft[a]}
    /\ \/ done[a] /\ At(a, "dropStaging") /\ UNCHANGED <<draft, resuming, done>>
       \/ ~done[a] /\ At(a, "idle") /\ Cleared(a)
    /\ UNCHANGED <<decision, disk, had, faults>>

-----------------------------------------------------------------------------
(* The environment.                                                        *)

Fault(kind) == kind \in Faults /\ faults < MaxFaults /\ faults' = faults + 1

Crash(a) ==
    /\ Fault("crash")
    /\ pc[a] # "idle" /\ At(a, "idle") /\ Cleared(a)
    /\ UNCHANGED <<inbox, disk, had>>

Torn(tree) == IF tree = Absent THEN Absent ELSE [tree EXCEPT !.whole = FALSE]

(* A crash in rmtree leaves part of the tree.                              *)
Tear(a) ==
    /\ Fault("tear")
    /\ \/ pc[a] \in {"wipeStaging", "discard", "dropStaging"}
          /\ staging' = Torn(staging) /\ UNCHANGED backup
       \/ pc[a] \in {"wipeBackup", "dropBackup"} /\ backup' = Torn(backup) /\ UNCHANGED staging
    /\ At(a, "idle") /\ Cleared(a)
    /\ UNCHANGED <<inbox, dest, journal, had>>

Step(a) ==
    \/ Look(a) \/ Recover(a) \/ LookAgain(a)
    \/ WipeStaging(a) \/ Prepare(a) \/ WriteSome(a) \/ WriteRest(a) \/ Stage(a)
    \/ WipeBackup(a) \/ MoveAway(a) \/ NoteBackup(a)
    \/ Install(a) \/ InstalledBefore(a) \/ NoteSwap(a) \/ RenameFails(a)
    \/ DropStaging(a) \/ DropBackup(a) \/ Commit(a) \/ Unlink(a)
    \/ Discard(a) \/ Forget(a) \/ Mark(a)

Next ==
    \/ \E p \in Proposals : Decide(p)
    \/ \E a \in Acceptors : \E p \in Proposals : Begin(a, p)
    \/ \E a \in Acceptors : Step(a) \/ Crash(a) \/ Tear(a)

Spec == Init /\ [][Next]_vars

(* A request that is running goes on, its tree is written in the end, and  *)
(* people repeat an accept whose proposal is not marked: the one that      *)
(* raised, and those of other proposals in between.                        *)
FairSpec ==
    /\ Spec
    /\ \A a \in Acceptors : WF_vars(Step(a)) /\ WF_vars(WriteRest(a))
    /\ \A a \in Acceptors : \A p \in Proposals : SF_vars(Begin(a, p))

-----------------------------------------------------------------------------
(* Properties.                                                             *)

(* "HP-111 writes only after PASS approve" (docs/SECURITY.md:213): no tree *)
(* a person did not approve is ever installed.                             *)
OnlyApproved ==
    \A p \in Proposals : dest # Absent /\ dest.of = p => decision[p] = "APPROVED"

(* There is a skill that loads: in place, moved away, or staged in full.   *)
Kept ==
    \/ dest # Absent
    \/ backup # Absent /\ backup.whole
    \/ staging # Absent /\ staging.whole

(* One interruption, wherever it strikes, neither loses the skill nor      *)
(* leaves part of a tree in its place.                                     *)
SurvivesOneFault ==
    faults <= 1 => (had => Kept) /\ (dest # Absent => dest.whole)

(* "an interrupted accept can recover without leaving a half-applied       *)
(* skill": the directory never holds part of a tree.  It does when two     *)
(* accepts are interrupted, the second while it removes what the first     *)
(* had staged.                                                             *)
NeverHalfApplied == dest # Absent => dest.whole

(* Once there is a skill, one of the three directories holds a copy.  Two  *)
(* interruptions are enough to lose it; no run checks this.                *)
NeverLost == had => Kept

(* A proposal is marked applied only when its files are in place.          *)
MarkedIsInstalled == [][\A p \in applied' \ applied : Installed(p)]_vars

(* A skill that an interrupted accept took away is put back.               *)
PutBack == (had /\ dest = Absent) ~> (dest # Absent)
=============================================================================
