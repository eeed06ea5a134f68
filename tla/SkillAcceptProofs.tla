-------------------------- MODULE SkillAcceptProofs --------------------------
(***************************************************************************)
(* What SkillAccept guarantees for any proposals, number of acceptors and  *)
(* of faults: a tree that nobody approved is never installed (OnlyApproved)*)
(* -- the staging tree an acceptor finds may be another's, but whoever     *)
(* wrote it had been approved (Vouched).  That a proposal is marked only   *)
(* when its files are in place needs more: there is no lock, and an        *)
(* acceptor that is alone owns the staging tree it wrote (Owned).  That    *)
(* one fault loses nothing (SparesTheSkill) rests on a journal that tells  *)
(* the truth until a second one strikes (Spared); that crashes alone never *)
(* leave half a skill, on the journal saying `preparing` of a tree that is *)
(* not whole (LoadInv); that nothing is lost while one draft is retried, on *)
(* every accept finding a journal of its own (Recovers).                   *)
(***************************************************************************)
EXTENDS SkillAccept, TLAPS

USE DEF vars, inbox, disk, local

Approved(p) == p \in Proposals /\ decision[p] = "APPROVED"

(* Whoever is at work has an approved draft, and no other tree is staged   *)
(* or in place.                                                            *)
Vouches(tree) == tree # Absent /\ tree.of # Original => Approved(tree.of)

Vouched ==
    /\ \A a \in Acceptors : pc[a] # "idle" => Approved(draft[a])
    /\ Vouches(dest) /\ Vouches(staging)

IInv == TypeOK /\ Vouched

(* Accepts are made one at a time.                                         *)
Alone == \A a, b \in Acceptors : a = b

BeforeSwap == {"stage", "wipeBackup", "moveAway", "noteBackup", "install"}
AfterSwap == {"noteSwap", "dropStaging", "dropBackup", "commit", "unlink"}

Owned ==
    \A a \in Acceptors :
        /\ pc[a] \in {"idle", "look", "recover", "mark"} => ~resuming[a]
        /\ pc[a] \in BeforeSwap /\ ~resuming[a] => staging = Tree(draft[a], TRUE)
        /\ pc[a] \in AfterSwap /\ ~resuming[a] => Installed(draft[a])
        /\ pc[a] = "mark" => Installed(draft[a])

-----------------------------------------------------------------------------
LEMMA TreesAreThere ==
    \A p \in Trees : \A whole \in BOOLEAN :
        /\ Tree(p, whole) \in Directories /\ Tree(p, whole) # Absent
        /\ Tree(p, whole).of = p
BY MarksAssumption DEF Tree, Directories

LEMMA InitIInv == Init => IInv /\ Owned
<1> SUFFICES ASSUME Init PROVE IInv /\ Owned
  OBVIOUS
<1>1. Original \in Trees
  BY DEF Trees
<1>2. TypeOK
  BY <1>1, TreesAreThere DEF Init, TypeOK, Directories, Journals, Labels
<1>3. Vouched
  BY <1>1, TreesAreThere DEF Init, Vouched, Vouches
<1>4. Owned
  BY DEF Init, Owned, BeforeSwap, AfterSwap
<1> QED
  BY <1>2, <1>3, <1>4 DEF IInv

(* One step per action: what an acceptor does keeps the types ...          *)
LEMMA StepTypes ==
    ASSUME IInv, NEW a \in Acceptors, Step(a) \/ Crash(a) \/ Tear(a)
    PROVE  TypeOK'
<1> USE DEF IInv, TypeOK
<1>a. /\ pc[a] # "idle" => draft[a] \in Proposals /\ draft[a] \in Trees
      /\ Absent \in Directories /\ NoJournal \in Journals
  BY DEF Vouched, Approved, Trees, Directories, Journals
<1>1. CASE Look(a)
  BY <1>1, <1>a DEF Look, At, Cleared, Labels
<1>2. CASE Recover(a)
  BY <1>2 DEF Recover, At, ResumeAt, Labels, Journals, JournalStates
<1>3. CASE LookAgain(a)
  BY <1>3 DEF LookAgain, At, Labels, Installed
<1>4. CASE WipeStaging(a)
  BY <1>4, <1>a DEF WipeStaging, Reach, At, DiskStep, Labels
<1>5. CASE Prepare(a)
  BY <1>5, <1>a DEF Prepare, Reach, At, DiskStep, Labels, Journaled, Journals, JournalStates
<1>6. CASE WriteSome(a)
  BY <1>6, <1>a, TreesAreThere DEF WriteSome, DiskStep, Labels
<1>7. CASE WriteRest(a)
  BY <1>7, <1>a, TreesAreThere DEF WriteRest, Reach, At, DiskStep, Labels
<1>8. CASE Stage(a)
  BY <1>8, <1>a DEF Stage, Reach, At, DiskStep, Labels, Journaled, Journals, JournalStates
<1>9. CASE WipeBackup(a)
  BY <1>9, <1>a DEF WipeBackup, At, DiskStep, Labels
<1>10. CASE MoveAway(a)
  BY <1>10, <1>a DEF MoveAway, Reach, At, DiskStep, Labels
<1>11. CASE NoteBackup(a)
  BY <1>11, <1>a DEF NoteBackup, Reach, At, DiskStep, Labels, Journaled, Journals, JournalStates
<1>12. CASE Install(a)
  BY <1>12, <1>a DEF Install, Reach, At, Labels
<1>13. CASE InstalledBefore(a)
  BY <1>13, <1>a DEF InstalledBefore, Reach, At, DiskStep, Labels
<1>14. CASE NoteSwap(a)
  BY <1>14, <1>a DEF NoteSwap, Reach, At, DiskStep, Labels, Journaled, Journals, JournalStates
<1>15. CASE RenameFails(a)
  BY <1>15, <1>a DEF RenameFails, At, Cleared, Labels
<1>16. CASE DropStaging(a)
  BY <1>16, <1>a DEF DropStaging, Reach, At, DiskStep, Labels
<1>17. CASE DropBackup(a)
  BY <1>17, <1>a DEF DropBackup, Reach, At, DiskStep, Labels
<1>18. CASE Commit(a)
  BY <1>18, <1>a DEF Commit, Reach, At, DiskStep, Labels, Journals, JournalStates
<1>19. CASE Unlink(a)
  BY <1>19, <1>a DEF Unlink, At, Cleared, Labels
<1>20. CASE Discard(a)
  BY <1>20, <1>a DEF Discard, Reach, At, DiskStep, Labels
<1>21. CASE Forget(a)
  BY <1>21, <1>a DEF Forget, Reach, At, DiskStep, Labels
<1>22. CASE Mark(a)
  BY <1>22, <1>a DEF Mark, At, Cleared, Labels
<1>23. CASE Crash(a)
  BY <1>23, <1>a DEF Crash, At, Cleared, Fault, Labels
<1>24. CASE Tear(a)
  <2>1. \A t \in Directories : Torn(t) \in Directories
    BY DEF Torn, Directories
  <2>2. staging' \in Directories /\ backup' \in Directories /\ UNCHANGED <<inbox, dest, journal, had>>
    BY <1>24, <2>1 DEF Tear
  <2>3. faults' \in Nat
    BY <1>24 DEF Tear, Fault
  <2> QED
    BY <1>24, <2>2, <2>3 DEF Tear, At, Cleared, Labels
<1> QED
  BY <1>1, <1>2, <1>3, <1>4, <1>5, <1>6, <1>7, <1>8, <1>9, <1>10, <1>11, <1>12, <1>13, <1>14,
     <1>15, <1>16, <1>17, <1>18, <1>19, <1>20, <1>21, <1>22, <1>23, <1>24 DEF Step

(* ... and lets no tree in that was not approved ...                       *)
LEMMA StepVouched ==
    ASSUME IInv, NEW a \in Acceptors, Step(a) \/ Crash(a) \/ Tear(a)
    PROVE  Vouched'
<1> USE DEF IInv, TypeOK
<1>a. pc[a] # "idle" => Approved(draft[a]) /\ draft[a] \in Trees
  BY DEF Vouched, Approved, Trees
<1> USE DEF Vouched, Vouches, Approved
<1>1. CASE Look(a)
  BY <1>1, <1>a DEF Look, At, Cleared
<1>2. CASE Recover(a)
  BY <1>2, <1>a DEF Recover, At, ResumeAt
<1>3. CASE LookAgain(a)
  BY <1>3, <1>a DEF LookAgain, At
<1>4. CASE WipeStaging(a)
  BY <1>4, <1>a DEF WipeStaging, Reach, At, DiskStep
<1>5. CASE Prepare(a)
  BY <1>5, <1>a DEF Prepare, Reach, At, DiskStep
<1>6. CASE WriteSome(a)
  BY <1>6, <1>a, TreesAreThere DEF WriteSome, DiskStep
<1>7. CASE WriteRest(a)
  BY <1>7, <1>a, TreesAreThere DEF WriteRest, Reach, At, DiskStep
<1>8. CASE Stage(a)
  BY <1>8, <1>a DEF Stage, Reach, At, DiskStep
<1>9. CASE WipeBackup(a)
  BY <1>9, <1>a DEF WipeBackup, At, DiskStep
<1>10. CASE MoveAway(a)
  BY <1>10, <1>a DEF MoveAway, Reach, At, DiskStep
<1>11. CASE NoteBackup(a)
  BY <1>11, <1>a DEF NoteBackup, Reach, At, DiskStep
<1>12. CASE Install(a)
  BY <1>12, <1>a DEF Install, Reach, At
<1>13. CASE InstalledBefore(a)
  BY <1>13, <1>a DEF InstalledBefore, Reach, At, DiskStep
<1>14. CASE NoteSwap(a)
  BY <1>14, <1>a DEF NoteSwap, Reach, At, DiskStep
<1>15. CASE RenameFails(a)
  BY <1>15, <1>a DEF RenameFails, At, Cleared
<1>16. CASE DropStaging(a)
  BY <1>16, <1>a DEF DropStaging, Reach, At, DiskStep
<1>17. CASE DropBackup(a)
  BY <1>17, <1>a DEF DropBackup, Reach, At, DiskStep
<1>18. CASE Commit(a)
  BY <1>18, <1>a DEF Commit, Reach, At, DiskStep
<1>19. CASE Unlink(a)
  BY <1>19, <1>a DEF Unlink, At, Cleared
<1>20. CASE Discard(a)
  BY <1>20, <1>a DEF Discard, Reach, At, DiskStep
<1>21. CASE Forget(a)
  BY <1>21, <1>a DEF Forget, Reach, At, DiskStep
<1>22. CASE Mark(a)
  BY <1>22, <1>a DEF Mark, At, Cleared
<1>23. CASE Crash(a)
  BY <1>23, <1>a DEF Crash, At, Cleared, Fault
<1>24. CASE Tear(a)
  BY <1>24 DEF Tear, At, Cleared, Fault, Torn, Directories
<1> QED
  BY <1>1, <1>2, <1>3, <1>4, <1>5, <1>6, <1>7, <1>8, <1>9, <1>10, <1>11, <1>12, <1>13, <1>14,
     <1>15, <1>16, <1>17, <1>18, <1>19, <1>20, <1>21, <1>22, <1>23, <1>24 DEF Step

(* ... and, when it is alone, keeps what it staged.                        *)
LEMMA StepOwned ==
    ASSUME IInv, Owned, Alone, NEW a \in Acceptors, Step(a) \/ Crash(a) \/ Tear(a)
    PROVE  Owned'
<1> USE DEF IInv, TypeOK
<1>a. \A b \in Acceptors : b = a
  BY DEF Alone
<1> USE DEF Owned, BeforeSwap, AfterSwap
<1>1. CASE Look(a)
  BY <1>1, <1>a DEF Look, At, Cleared, Installed
<1>2. CASE Recover(a)
  BY <1>2, <1>a DEF Recover, At, ResumeAt, Installed, Journals, JournalStates
<1>3. CASE LookAgain(a)
  BY <1>3, <1>a DEF LookAgain, At, Installed
<1>4. CASE WipeStaging(a)
  BY <1>4, <1>a DEF WipeStaging, Reach, At, DiskStep, Installed
<1>5. CASE Prepare(a)
  BY <1>5, <1>a DEF Prepare, Reach, At, DiskStep, Installed
<1>6. CASE WriteSome(a)
  BY <1>6, <1>a DEF WriteSome, DiskStep, Installed
<1>7. CASE WriteRest(a)
  BY <1>7, <1>a DEF WriteRest, Reach, At, DiskStep, Installed
<1>8. CASE Stage(a)
  BY <1>8, <1>a DEF Stage, Reach, At, DiskStep, Installed
<1>9. CASE WipeBackup(a)
  BY <1>9, <1>a DEF WipeBackup, At, DiskStep, Installed
<1>10. CASE MoveAway(a)
  BY <1>10, <1>a DEF MoveAway, Reach, At, DiskStep, Installed
<1>11. CASE NoteBackup(a)
  BY <1>11, <1>a DEF NoteBackup, Reach, At, DiskStep, Installed
<1>12. CASE Install(a)
  BY <1>12, <1>a DEF Install, Reach, At, Installed
<1>13. CASE InstalledBefore(a)
  BY <1>13, <1>a DEF InstalledBefore, Reach, At, DiskStep, Installed
<1>14. CASE NoteSwap(a)
  BY <1>14, <1>a DEF NoteSwap, Reach, At, DiskStep, Installed
<1>15. CASE RenameFails(a)
  BY <1>15, <1>a DEF RenameFails, At, Cleared, Installed
<1>16. CASE DropStaging(a)
  BY <1>16, <1>a DEF DropStaging, Reach, At, DiskStep, Installed
<1>17. CASE DropBackup(a)
  BY <1>17, <1>a DEF DropBackup, Reach, At, DiskStep, Installed
<1>18. CASE Commit(a)
  BY <1>18, <1>a DEF Commit, Reach, At, DiskStep, Installed
<1>19. CASE Unlink(a)
  BY <1>19, <1>a DEF Unlink, At, Cleared, Installed
<1>20. CASE Discard(a)
  BY <1>20, <1>a DEF Discard, Reach, At, DiskStep, Installed
<1>21. CASE Forget(a)
  BY <1>21, <1>a DEF Forget, Reach, At, DiskStep, Installed
<1>22. CASE Mark(a)
  BY <1>22, <1>a DEF Mark, At, Cleared, Installed
<1>23. CASE Crash(a)
  BY <1>23, <1>a DEF Crash, At, Cleared, Fault, Installed
<1>24. CASE Tear(a)
  BY <1>24, <1>a DEF Tear, At, Cleared, Fault, Installed
<1> QED
  BY <1>1, <1>2, <1>3, <1>4, <1>5, <1>6, <1>7, <1>8, <1>9, <1>10, <1>11, <1>12, <1>13, <1>14,
     <1>15, <1>16, <1>17, <1>18, <1>19, <1>20, <1>21, <1>22, <1>23, <1>24 DEF Step

-----------------------------------------------------------------------------
LEMMA DecideKeeps ==
    ASSUME IInv, NEW p \in Proposals, Decide(p)
    PROVE  IInv' /\ (Owned => Owned')
<1>1. TypeOK'
  BY DEF Decide, IInv, TypeOK
<1>2. \A q : Approved(q) => Approved(q)'
  BY DEF Decide, Approved, IInv, TypeOK
<1>3. Vouched'
  BY <1>2 DEF Decide, IInv, Vouched, Vouches
<1>4. Owned => Owned'
  BY DEF Decide, Owned, Installed
<1> QED
  BY <1>1, <1>3, <1>4 DEF IInv

LEMMA BeginKeeps ==
    ASSUME IInv, NEW a \in Acceptors, NEW p \in Proposals, Begin(a, p)
    PROVE  IInv' /\ (Owned => Owned')
<1>1. TypeOK'
  BY DEF Begin, Reach, At, IInv, TypeOK, Labels
<1>2. Vouched'
  BY DEF Begin, Reach, At, IInv, TypeOK, Vouched, Vouches, Approved
<1>3. Owned => Owned'
  BY DEF Begin, Reach, At, IInv, TypeOK, Owned, Installed, BeforeSwap, AfterSwap
<1> QED
  BY <1>1, <1>2, <1>3 DEF IInv

LEMMA NextIInv == IInv /\ [Next]_vars => IInv'
<1> SUFFICES ASSUME IInv, [Next]_vars PROVE IInv'
  OBVIOUS
<1>1. CASE Next
  BY <1>1, DecideKeeps, BeginKeeps, StepTypes, StepVouched DEF Next, IInv
<1>2. CASE UNCHANGED vars
  BY <1>2 DEF IInv, TypeOK, Vouched, Vouches, Approved
<1> QED
  BY <1>1, <1>2

LEMMA NextOwned == IInv /\ Owned /\ Alone /\ [Next]_vars => Owned'
<1> SUFFICES ASSUME IInv, Owned, Alone, [Next]_vars PROVE Owned'
  OBVIOUS
<1>1. CASE Next
  BY <1>1, DecideKeeps, BeginKeeps, StepOwned DEF Next
<1>2. CASE UNCHANGED vars
  BY <1>2 DEF Owned, Installed
<1> QED
  BY <1>1, <1>2

(* The inductive invariant: every tree that may be installed was approved. *)
THEOREM IInvAlways == Spec => []IInv
BY InitIInv, NextIInv, PTL DEF Spec

(* Every variable keeps its type.                                          *)
THEOREM TypeCorrect == Spec => []TypeOK
BY IInvAlways, PTL DEF IInv

(* No tree that a person did not approve is ever installed, with any       *)
(* number of accepts at once (accept_approved, _gate_hitl_and_digest).     *)
THEOREM InstallsOnlyApproved == Spec => []OnlyApproved
<1>1. IInv => OnlyApproved
  BY MarksAssumption DEF IInv, Vouched, Vouches, Approved, OnlyApproved
<1> QED
  BY <1>1, IInvAlways, PTL

(* When accepts are made one at a time, a proposal is marked applied only  *)
(* when its files are in place (_mark_applied).                            *)
THEOREM MarksInstalled == ASSUME Alone PROVE Spec => MarkedIsInstalled
<1>1. Spec => []Owned
  BY InitIInv, IInvAlways, NextOwned, PTL DEF Spec
<1>2. Owned /\ [Next]_vars => [\A p \in applied' \ applied : Installed(p)]_vars
  <2> SUFFICES ASSUME Owned, Next, NEW p \in applied' \ applied PROVE Installed(p)
    OBVIOUS
  <2>1. PICK a \in Acceptors : Mark(a)
    BY DEF Next, Decide, Begin, Step, Look, Recover, LookAgain, WipeStaging, Prepare, WriteSome,
           WriteRest, Stage, WipeBackup, MoveAway, NoteBackup, Install, InstalledBefore, NoteSwap,
           RenameFails, DropStaging, DropBackup, Commit, Unlink, Discard, Forget, Crash, Tear,
           DiskStep
  <2> QED
    BY <2>1 DEF Mark, Owned
<1> QED
  BY <1>1, <1>2, PTL DEF Spec, MarkedIsInstalled
-----------------------------------------------------------------------------
(* One fault, of one acceptor: what the acceptor and the disk owe each     *)
(* other as long as no second fault strikes.  First the journal: what a    *)
(* state of it says is on disk.                                            *)
JournalTrue(p, state, a) ==
    /\ state \in {"staged", "backup"} /\ pc[a] # "prepare" =>
         staging = Tree(p, TRUE) \/ Installed(p)
    /\ state = "backup" => dest = Absent \/ Installed(p)
    /\ state \in {"swapped", "committed"} => dest # Absent

(* ... then what is true at each place of the request ...                  *)
Swapping == {"wipeBackup", "moveAway", "noteBackup", "install", "noteSwap"}

Placed(a) ==
    /\ pc[a] \in BeforeSwap => staging = Tree(draft[a], TRUE)
    /\ pc[a] \in AfterSwap \cup {"mark"} =>
         dest # Absent /\ (journal # NoJournal => journal.of = draft[a])
    /\ pc[a] = "moveAway" => dest # Absent /\ backup = Absent
    /\ pc[a] \in {"noteBackup", "install"} => dest = Absent
    /\ pc[a] = "look" => draft[a] \notin applied
    /\ pc[a] = "recover" => ~Installed(draft[a])
    /\ pc[a] = "lookAgain" /\ Installed(draft[a]) => journal = NoJournal
    /\ pc[a] \in {"write", "stage", "discard"} /\ journal # NoJournal =>
         journal.state = "preparing"
    /\ pc[a] \in Swapping /\ journal # NoJournal =>
         journal.of = draft[a] /\ journal.state \in {"staged", "backup"}
    /\ pc[a] = "dropStaging" /\ resuming[a] /\ journal # NoJournal =>
         journal.state \in {"swapped", "committed"}
    /\ pc[a] = "mark" /\ ~done[a] => journal = NoJournal
    /\ pc[a] \in {"idle", "look"} /\ journal # NoJournal =>
         \A q \in Proposals \ applied : Installed(q) => journal.of = q

(* ... and before the fault, when a request leaves nothing behind: the     *)
(* only draft in place without its mark is the one at hand.                *)
Undisturbed(a) ==
    /\ ~resuming[a] /\ ~done[a]
    /\ pc[a] \notin {"discard", "forget"}
    /\ pc[a] \in {"idle", "look", "recover", "lookAgain", "wipeStaging", "prepare", "mark"} =>
         journal = NoJournal
    /\ pc[a] \in {"look", "recover", "lookAgain"} => draft[a] \notin applied
    /\ pc[a] \notin {"noteBackup", "install"} /\ dest = Absent => ~had
    /\ \A q \in Proposals \ applied :
         Installed(q) => pc[a] \in AfterSwap \cup {"mark"} /\ draft[a] = q

(* The last copy is the backup, except while the staged one is installed.  *)
Spared(a) ==
    /\ dest # Absent => dest.whole
    /\ had /\ dest = Absent /\ (faults = 0 \/ pc[a] # "install") =>
         backup # Absent /\ backup.whole
    /\ journal # NoJournal => JournalTrue(journal.of, journal.state, a)
    /\ Placed(a)
    /\ faults = 0 => Undisturbed(a)

LEMMA TreesAreWhole ==
    \A p \in Trees : Tree(p, TRUE) # Absent /\ Tree(p, TRUE).whole /\ Tree(p, TRUE).of = p
<1>1. TRUE \in BOOLEAN
  OBVIOUS
<1>2. \A p : Tree(p, TRUE).whole
  BY DEF Tree
<1> QED
  BY <1>1, <1>2, TreesAreThere

(* One step per action again.                                              *)
LEMMA StepSpared ==
    ASSUME IInv, Owned, Alone, NEW a \in Acceptors, Spared(a), Step(a) \/ Crash(a) \/ Tear(a),
           faults <= 1, faults' <= 1
    PROVE  Spared(a)'
<1> USE DEF IInv, TypeOK
<1>a. /\ pc[a] # "idle" => draft[a] \in Proposals
      /\ \A p \in Proposals : /\ Tree(p, TRUE) # Absent
                               /\ Tree(p, TRUE).whole
                               /\ Tree(p, TRUE).of = p
  BY TreesAreWhole DEF Vouched, Approved, Trees
<1> USE DEF Spared, JournalTrue, Placed, Undisturbed, Owned, BeforeSwap, AfterSwap, Swapping,
            Installed
<1>1. CASE Look(a)
  <2>1. UNCHANGED <<applied, disk, had, faults>> /\ pc[a] = "look"
    BY <1>1 DEF Look
  <2>2. CASE Installed(draft[a]) /\ At(a, "mark") /\ done' = [done EXCEPT ![a] = TRUE]
             /\ UNCHANGED <<draft, resuming>>
    <3>1. faults # 0 /\ (journal # NoJournal => journal.of = draft[a])
      <4>1. draft[a] \in Proposals \ applied
        BY <1>a, <2>1
      <4>2. faults # 0
        BY <2>1, <2>2, <4>1
      <4> QED
        BY <2>1, <2>2, <4>1, <4>2
    <3> QED
      BY <1>a, <2>1, <2>2, <3>1 DEF At
  <2>3. CASE Stale(draft[a]) /\ At(a, "idle") /\ Cleared(a)
    BY <1>a, <2>1, <2>3 DEF At, Cleared
  <2>4. CASE ~Installed(draft[a]) /\ At(a, "recover") /\ UNCHANGED <<draft, resuming, done>>
    BY <1>a, <2>1, <2>4 DEF At
  <2> QED
    BY <1>1, <2>2, <2>3, <2>4 DEF Look
<1>2. CASE Recover(a)
  <2>1. UNCHANGED <<inbox, disk, draft, done, had, faults>> /\ pc[a] = "recover"
    BY <1>2 DEF Recover
  <2>2. CASE journal # NoJournal /\ journal.of = draft[a]
    <3>1. pc' = [pc EXCEPT ![a] = ResumeAt(journal.state)] /\ resuming'[a] /\ faults # 0
      BY <1>2, <2>1, <2>2 DEF Recover, At
    <3>2. CASE journal.state = "preparing"
      BY <1>a, <2>1, <2>2, <3>1, <3>2 DEF ResumeAt
    <3>3. CASE journal.state \in {"staged", "backup"}
      <4>1. pc'[a] \in {"wipeBackup", "install"} /\ staging = Tree(draft[a], TRUE)
        BY <2>1, <2>2, <3>1, <3>3 DEF ResumeAt
      <4>2. pc'[a] = "install" => dest = Absent
        BY <2>1, <2>2, <3>1, <3>3 DEF ResumeAt
      <4> QED
        BY <1>a, <2>1, <2>2, <3>1, <3>3, <4>1, <4>2
    <3>4. CASE journal.state \in {"swapped", "committed"}
      BY <1>a, <2>1, <2>2, <3>1, <3>4 DEF ResumeAt
    <3>5. journal.state \in JournalStates
      BY <2>2 DEF Journals
    <3> QED
      BY <3>2, <3>3, <3>4, <3>5 DEF JournalStates
  <2>3. CASE ~(journal # NoJournal /\ journal.of = draft[a])
    <3>1. pc' = [pc EXCEPT ![a] = "lookAgain"] /\ UNCHANGED resuming
      BY <1>2, <2>3 DEF Recover, At
    <3>2. Placed(a)'
      BY <2>1, <2>3, <3>1
    <3>3. faults = 0 => Undisturbed(a)'
      BY <2>1, <3>1
    <3> QED
      BY <2>1, <3>1, <3>2, <3>3
  <2> QED
    BY <2>2, <2>3
<1>3. CASE LookAgain(a)
  BY <1>3, <1>a DEF LookAgain, At
<1>4. CASE WipeStaging(a)
  BY <1>4, <1>a DEF WipeStaging, Reach, At, DiskStep
<1>5. CASE Prepare(a)
  BY <1>5, <1>a DEF Prepare, Reach, At, DiskStep, Journaled
<1>6. CASE WriteSome(a)
  BY <1>6, <1>a DEF WriteSome, DiskStep
<1>7. CASE WriteRest(a)
  BY <1>7, <1>a DEF WriteRest, Reach, At, DiskStep
<1>8. CASE Stage(a)
  BY <1>8, <1>a DEF Stage, Reach, At, DiskStep, Journaled
<1>9. CASE WipeBackup(a)
  BY <1>9, <1>a DEF WipeBackup, At, DiskStep
<1>10. CASE MoveAway(a)
  BY <1>10, <1>a DEF MoveAway, Reach, At, DiskStep
<1>11. CASE NoteBackup(a)
  BY <1>11, <1>a DEF NoteBackup, Reach, At, DiskStep, Journaled
<1>12. CASE Install(a)
  <2>1. /\ pc[a] = "install" /\ pc' = [pc EXCEPT ![a] = "noteSwap"]
        /\ dest' = Tree(draft[a], TRUE) /\ draft[a] \in Proposals
        /\ UNCHANGED <<inbox, backup, journal, draft, resuming, done, faults>>
    BY <1>12, <1>a DEF Install, Reach, At
  <2>2. dest' # Absent /\ dest'.whole
    BY <1>a, <2>1
  <2>3. JournalTrue(journal.of, journal.state, a)' \/ journal = NoJournal
    BY <2>1, <2>2
  <2>4. Placed(a)'
    BY <2>1, <2>2
  <2>5. faults = 0 => Undisturbed(a)'
    <3>1. ASSUME NEW q \in Proposals, Installed(q)' PROVE draft[a] = q
      <4>1. Tree(q, TRUE) = Tree(draft[a], TRUE)
        BY <2>1, <3>1
      <4>2. Tree(q, TRUE).of = q /\ Tree(draft[a], TRUE).of = draft[a]
        BY <1>a, <2>1
      <4> QED
        BY <4>1, <4>2
    <3> QED
      BY <2>1, <2>2, <3>1
  <2> QED
    BY <2>1, <2>2, <2>3, <2>4, <2>5
<1>13. CASE InstalledBefore(a)
  BY <1>13, <1>a DEF InstalledBefore, Reach, At, DiskStep
<1>14. CASE NoteSwap(a)
  BY <1>14, <1>a DEF NoteSwap, Reach, At, DiskStep, Journaled
<1>15. CASE RenameFails(a)
  BY <1>15, <1>a DEF RenameFails, At, Cleared
<1>16. CASE DropStaging(a)
  BY <1>16, <1>a DEF DropStaging, Reach, At, DiskStep
<1>17. CASE DropBackup(a)
  BY <1>17, <1>a DEF DropBackup, Reach, At, DiskStep
<1>18. CASE Commit(a)
  <2>1. /\ pc[a] = "commit" /\ pc' = [pc EXCEPT ![a] = "unlink"]
        /\ UNCHANGED <<dest, staging, backup, inbox, draft, resuming, done, had, faults>>
        /\ dest # Absent
    BY <1>18 DEF Commit, Reach, At, DiskStep
  <2>2. CASE journal = NoJournal
    BY <1>18, <1>a, <2>1, <2>2 DEF Commit
  <2>3. CASE journal # NoJournal
    <3>1. journal \in [state : JournalStates, of : Proposals]
      BY <2>3 DEF Journals
    <3>2. journal'.of = journal.of /\ journal'.state = "committed"
      BY <1>18, <2>3, <3>1 DEF Commit
    <3> QED
      BY <1>a, <2>1, <2>3, <3>2
  <2> QED
    BY <2>2, <2>3
<1>19. CASE Unlink(a)
  BY <1>19, <1>a DEF Unlink, At, Cleared
<1>20. CASE Discard(a)
  BY <1>20, <1>a DEF Discard, Reach, At, DiskStep
<1>21. CASE Forget(a)
  BY <1>21, <1>a DEF Forget, Reach, At, DiskStep
<1>22. CASE Mark(a)
  BY <1>22, <1>a DEF Mark, At, Cleared
<1>23. CASE Crash(a)
  <2>1. /\ pc[a] # "idle" /\ pc' = [pc EXCEPT ![a] = "idle"]
        /\ UNCHANGED <<inbox, disk, had>>
        /\ faults = 0 /\ faults' = 1
    BY <1>23 DEF Crash, At, Fault
  <2>2. dest = Absent /\ had => backup # Absent /\ backup.whole
    BY <2>1
  <2>3. journal # NoJournal => pc[a] \notin {"prepare", "mark"}
    BY <2>1
  <2>4. journal # NoJournal => \A q \in Proposals \ applied : Installed(q) => journal.of = q
    BY <2>1
  <2>5. journal # NoJournal => JournalTrue(journal.of, journal.state, a)'
    BY <2>1, <2>3
  <2>6. Placed(a)'
    BY <2>1, <2>4
  <2>7. journal' # NoJournal => JournalTrue(journal.of, journal.state, a)'
    BY <2>1, <2>5
  <2>8. dest' # Absent => dest'.whole
    BY <2>1
  <2>9. had' /\ dest' = Absent => backup' # Absent /\ backup'.whole
    BY <2>1, <2>2
  <2>10. faults' # 0
    BY <2>1
  <2> HIDE DEF JournalTrue, Placed, Undisturbed, Owned, IInv, TypeOK
  <2> QED
    BY <2>6, <2>7, <2>8, <2>9, <2>10
<1>24. CASE Tear(a)
  <2>1. /\ pc[a] # "idle" /\ pc' = [pc EXCEPT ![a] = "idle"]
        /\ UNCHANGED <<inbox, dest, journal, had>>
        /\ faults = 0 /\ faults' = 1
        /\ pc[a] \in {"wipeStaging", "dropStaging", "wipeBackup", "dropBackup"}
    <3>1. faults = 0 /\ faults' = 1
      BY <1>24 DEF Tear, Fault
    <3>2. pc[a] # "discard"
      BY <3>1
    <3> QED
      BY <1>24, <3>1, <3>2 DEF Tear, At
  <2>2. dest = Absent => ~had
    BY <2>1
  <2>3. journal # NoJournal => \A q \in Proposals \ applied : Installed(q) => journal.of = q
    BY <2>1
  <2>4. journal # NoJournal =>
          \/ Installed(journal.of)
          \/ UNCHANGED staging
    BY <1>24, <2>1 DEF Tear
  <2>5. journal # NoJournal => JournalTrue(journal.of, journal.state, a)'
    BY <2>1, <2>4
  <2>6. Placed(a)'
    BY <2>1, <2>3
  <2>7. journal' # NoJournal => JournalTrue(journal.of, journal.state, a)'
    BY <2>1, <2>5
  <2>8. dest' # Absent => dest'.whole
    BY <2>1
  <2>9. had' /\ dest' = Absent => backup' # Absent /\ backup'.whole
    BY <2>1, <2>2
  <2>10. faults' # 0
    BY <2>1
  <2> HIDE DEF JournalTrue, Placed, Undisturbed, Owned, IInv, TypeOK
  <2> QED
    BY <2>6, <2>7, <2>8, <2>9, <2>10
<1> QED
  BY <1>1, <1>2, <1>3, <1>4, <1>5, <1>6, <1>7, <1>8, <1>9, <1>10, <1>11, <1>12, <1>13, <1>14,
     <1>15, <1>16, <1>17, <1>18, <1>19, <1>20, <1>21, <1>22, <1>23, <1>24 DEF Step

SparedInv == faults <= 1 => \A a \in Acceptors : Spared(a)

LEMMA InitSpared == Init => SparedInv
<1> SUFFICES ASSUME Init, NEW a \in Acceptors PROVE Spared(a)
  BY DEF SparedInv
<1>1. \A q \in Proposals : ~Installed(q)
  <2>1. ASSUME NEW q \in Proposals, Installed(q) PROVE FALSE
    <3>1. Tree(q, TRUE) # Absent /\ Tree(q, TRUE).of = q /\ Tree(Original, TRUE).of = Original
      BY TreesAreWhole DEF Trees
    <3> QED
      BY <2>1, <3>1, MarksAssumption DEF Init, Installed
  <2> QED
    BY <2>1
<1>2. dest # Absent => dest.whole
  BY TreesAreWhole DEF Init, Trees
<1> QED
  BY <1>1, <1>2 DEF Init, Spared, Placed, Undisturbed, BeforeSwap, AfterSwap, Swapping

LEMMA NextSpared == IInv /\ Owned /\ Alone /\ SparedInv /\ [Next]_vars => SparedInv'
<1> SUFFICES ASSUME IInv, Owned, Alone, SparedInv, [Next]_vars, faults' <= 1,
                    NEW a \in Acceptors
             PROVE  Spared(a)'
  BY DEF SparedInv
<1>1. ASSUME NEW b \in Acceptors, Step(b) \/ Crash(b) \/ Tear(b) PROVE Spared(a)'
  <2>1. a = b
    BY DEF Alone
  <2>2. faults <= 1
    <3>1. CASE Step(b)
      BY <3>1 DEF Step, Look, Recover, LookAgain, WipeStaging, Prepare, WriteSome, WriteRest,
         Stage, WipeBackup, MoveAway, NoteBackup, Install, InstalledBefore, NoteSwap,
         RenameFails, DropStaging, DropBackup, Commit, Unlink, Discard, Forget, Mark, DiskStep
    <3>2. CASE Crash(b) \/ Tear(b)
      BY <3>2 DEF Crash, Tear, Fault, IInv, TypeOK
    <3> QED
      BY <1>1, <3>1, <3>2
  <2> QED
    BY <1>1, <2>1, <2>2, StepSpared DEF SparedInv
<1>2. ASSUME NEW p \in Proposals, Decide(p) PROVE Spared(a)'
  BY <1>2 DEF Decide, SparedInv, Spared, JournalTrue, Placed, Undisturbed, Installed
<1>3. ASSUME NEW b \in Acceptors, NEW p \in Proposals, Begin(b, p) PROVE Spared(a)'
  <2>1. a = b
    BY DEF Alone
  <2>2. Spared(a)
    BY <1>3 DEF Begin, SparedInv
  <2> QED
    BY <1>3, <2>1, <2>2 DEF Begin, Reach, At, Spared, JournalTrue, Placed, Undisturbed, Installed,
       BeforeSwap, AfterSwap, Swapping, IInv, TypeOK
<1>4. CASE UNCHANGED vars
  BY <1>4 DEF SparedInv, Spared, JournalTrue, Placed, Undisturbed, Installed
<1> QED
  BY <1>1, <1>2, <1>3, <1>4 DEF Next

(* When accepts are made one at a time, one interruption, wherever it      *)
(* strikes, neither loses the skill nor leaves part of a tree in its place *)
(* (_atomic_commit, _swap and _resume_journal).                            *)
THEOREM SparesTheSkill ==
    ASSUME Alone, Acceptors # {} PROVE Spec => []SurvivesOneFault
<1>1. IInv /\ SparedInv => SurvivesOneFault
  <2> SUFFICES ASSUME IInv, SparedInv, faults <= 1
               PROVE  (had => Kept) /\ (dest # Absent => dest.whole)
    BY DEF SurvivesOneFault
  <2>1. PICK a \in Acceptors : Spared(a)
    BY DEF SparedInv
  <2>2. pc[a] = "install" => staging # Absent /\ staging.whole
    BY <2>1, TreesAreWhole DEF Spared, Placed, BeforeSwap, IInv, Vouched, Approved, Trees
  <2> QED
    BY <2>1, <2>2 DEF Spared, Kept
<1>2. Spec => []Owned
  BY InitIInv, IInvAlways, NextOwned, PTL DEF Spec
<1>3. IInv /\ Owned /\ SparedInv /\ [Next]_vars => SparedInv'
  BY NextSpared
<1> QED
  BY <1>1, <1>2, <1>3, InitSpared, IInvAlways, PTL DEF Spec
-----------------------------------------------------------------------------
(* However many requests die, if none of them does within the removal of a *)
(* tree: what is staged in part is under a journal that says `preparing`,  *)
(* which is never installed.                                               *)

Loads(tree) == tree # Absent => tree.whole

Preparing == journal # NoJournal /\ journal.state = "preparing"

LoadInv ==
    /\ Loads(dest)
    /\ Loads(staging) \/ Preparing
    /\ \A a \in Acceptors :
         /\ pc[a] = "write" => Preparing
         /\ pc[a] \in {"stage"} \cup Swapping => Loads(staging)
         /\ pc[a] \in {"prepare", "forget", "dropBackup", "commit", "unlink"} => staging = Absent

LEMMA StepLoads ==
    ASSUME IInv, Alone, LoadInv, NEW a \in Acceptors, Step(a) \/ Crash(a)
    PROVE  LoadInv'
<1> USE DEF LoadInv, Loads, Preparing, Swapping
<1>a. /\ \A b \in Acceptors : b = a
      /\ TypeOK
      /\ pc[a] # "idle" => draft[a] \in Proposals /\ Tree(draft[a], TRUE).whole
      /\ journal # NoJournal => journal \in [state : JournalStates, of : Proposals]
  BY TreesAreWhole DEF Alone, IInv, Vouched, Approved, Trees, TypeOK, Journals
<1>b. ASSUME NEW s \in JournalStates, draft[a] \in Proposals, Journaled(a, s)
      PROVE  journal' # NoJournal /\ journal'.state = s
  BY <1>b, MarksAssumption DEF Journaled
<1> USE <1>a DEF TypeOK
<1>1. CASE Look(a) \/ LookAgain(a) \/ Mark(a) \/ RenameFails(a) \/ Crash(a)
  BY <1>1 DEF Look, LookAgain, Mark, RenameFails, Crash, At, Cleared
<1>2. CASE Recover(a)
  <2>1. UNCHANGED <<dest, staging, journal>> /\ pc[a] = "recover"
    BY <1>2 DEF Recover
  <2>2. CASE ~(journal # NoJournal /\ journal.of = draft[a])
    BY <1>2, <2>1, <2>2 DEF Recover, At
  <2>3. CASE journal # NoJournal /\ journal.of = draft[a]
    <3>1. /\ pc'[a] = ResumeAt(journal.state) /\ journal.state \in JournalStates
          /\ \A b \in Acceptors : b = a
      BY <1>2, <2>1, <2>3 DEF Recover, At
    <3>2. /\ journal.state = "preparing" => pc'[a] = "discard"
          /\ journal.state # "preparing" => pc'[a] \in {"wipeBackup", "install", "dropStaging"}
      BY <3>1 DEF ResumeAt, JournalStates
    <3> QED
      BY <2>1, <3>1, <3>2
  <2> QED
    BY <2>2, <2>3
<1>3. CASE WipeStaging(a) \/ DropStaging(a) \/ Discard(a)
  BY <1>3 DEF WipeStaging, DropStaging, Discard, Reach, At, DiskStep
<1>4. CASE Prepare(a)
  BY <1>4, <1>b DEF Prepare, JournalStates, Reach, At, DiskStep
<1>5. CASE WriteSome(a)
  BY <1>5 DEF WriteSome, DiskStep
<1>6. CASE WriteRest(a)
  BY <1>6 DEF WriteRest, Reach, At, DiskStep
<1>7. CASE Stage(a) \/ NoteBackup(a) \/ NoteSwap(a)
  BY <1>7, <1>b DEF Stage, NoteBackup, NoteSwap, JournalStates, Reach, At, DiskStep
<1>8. CASE WipeBackup(a) \/ MoveAway(a) \/ InstalledBefore(a) \/ DropBackup(a)
  BY <1>8 DEF WipeBackup, MoveAway, InstalledBefore, DropBackup, Reach, At, DiskStep
<1>9. CASE Install(a)
  BY <1>9 DEF Install, Reach, At
<1>10. CASE Commit(a) \/ Forget(a)
  BY <1>10 DEF Commit, Forget, Reach, At, DiskStep
<1>11. CASE Unlink(a)
  BY <1>11 DEF Unlink, At, Cleared
<1> QED
  BY <1>1, <1>2, <1>3, <1>4, <1>5, <1>6, <1>7, <1>8, <1>9, <1>10, <1>11 DEF Step

(* "An interrupted accept can recover without leaving a half-applied       *)
(* skill": so it is, when accepts are made one at a time, for any number   *)
(* of interruptions that do not tear a tree (_atomic_commit,               *)
(* _resume_journal).                                                       *)
THEOREM CrashesNeverHalfApply ==
    ASSUME Alone, "tear" \notin Faults PROVE Spec => []NeverHalfApplied
<1>1. Init => LoadInv
  BY TreesAreWhole DEF Init, LoadInv, Loads, Swapping, Trees
<1>2. IInv /\ LoadInv /\ [Next]_vars => LoadInv'
  <2> SUFFICES ASSUME IInv, LoadInv, [Next]_vars PROVE LoadInv'
    OBVIOUS
  <2>1. ASSUME NEW p \in Proposals, Decide(p) PROVE LoadInv'
    BY <2>1 DEF Decide, LoadInv, Loads, Preparing
  <2>2. ASSUME NEW a \in Acceptors, NEW p \in Proposals, Begin(a, p) PROVE LoadInv'
    BY <2>2 DEF Begin, Reach, At, IInv, TypeOK, LoadInv, Loads, Preparing, Swapping
  <2>3. CASE UNCHANGED vars
    BY <2>3 DEF LoadInv, Loads, Preparing
  <2>4. \A a \in Acceptors : ~Tear(a)
    BY DEF Tear, Fault
  <2> QED
    BY <2>1, <2>2, <2>3, <2>4, StepLoads DEF Next
<1>3. LoadInv => NeverHalfApplied
  BY DEF LoadInv, Loads, NeverHalfApplied
<1> QED
  BY <1>1, <1>2, <1>3, IInvAlways, PTL DEF Spec
-----------------------------------------------------------------------------
(* One draft, accepted again and again: each accept takes up what the last *)
(* one left, its own, and loses neither the skill nor the journal.  A      *)
(* skill that is not in place is staged, under a journal that says so.     *)

OneDraft == \A p, q \in Proposals : p = q

Recovers(a) ==
    /\ Loads(dest)
    /\ had /\ dest = Absent => journal # NoJournal /\ journal.state \in {"staged", "backup"}
    /\ journal # NoJournal => JournalTrue(journal.of, journal.state, a)
    /\ Placed(a)
    /\ pc[a] \in {"lookAgain", "wipeStaging", "prepare"} => journal = NoJournal
    /\ pc[a] = "forget" /\ journal # NoJournal => journal.state = "preparing"
    /\ pc[a] \in Swapping => journal # NoJournal

LEMMA CrashRecovers ==
    ASSUME IInv, Owned, OneDraft, NEW a \in Acceptors, Recovers(a), Crash(a) \/ Tear(a)
    PROVE  Recovers(a)'
<1> USE DEF IInv, TypeOK, Recovers, Loads
<1>a. /\ pc[a] # "idle" => draft[a] \in Proposals
      /\ journal # NoJournal => journal.of \in Proposals
  BY DEF Vouched, Approved, Journals
<1>1. /\ pc[a] # "idle" /\ pc' = [pc EXCEPT ![a] = "idle"]
      /\ UNCHANGED <<inbox, dest, journal, had>>
  BY DEF Crash, Tear, At
<1>2. journal # NoJournal => \A q \in Proposals \ applied : Installed(q) => journal.of = q
  BY <1>a DEF OneDraft
<1>3. Placed(a)'
  BY <1>1, <1>2 DEF Placed, BeforeSwap, AfterSwap, Swapping, Installed
<1>4. ASSUME journal # NoJournal PROVE JournalTrue(journal.of, journal.state, a)'
  <2>1. CASE UNCHANGED staging
    BY <1>1, <1>4, <2>1 DEF JournalTrue, Installed
  <2>2. CASE staging' # staging
    <3>1. pc[a] \in {"wipeStaging", "discard", "dropStaging"}
      BY <2>2 DEF Crash, Tear
    <3>2. CASE pc[a] = "dropStaging"
      <4>1. Installed(journal.of) \/ journal.state \in {"swapped", "committed"}
        BY <1>a, <1>4, <3>2 DEF Placed, AfterSwap, Owned
      <4> QED
        BY <1>1, <1>4, <4>1 DEF JournalTrue, Installed
    <3>3. CASE pc[a] \in {"wipeStaging", "discard"}
      <4>1. journal.state = "preparing"
        BY <1>4, <3>3 DEF Placed
      <4> QED
        BY <1>1, <1>4, <4>1 DEF JournalTrue
    <3> QED
      BY <3>1, <3>2, <3>3
  <2> QED
    BY <2>1, <2>2
<1> QED
  BY <1>1, <1>3, <1>4 DEF Swapping

(* One step per action once more.                                          *)
LEMMA StepRecovers ==
    ASSUME IInv, Owned, Alone, OneDraft, NEW a \in Acceptors, Recovers(a), Step(a)
    PROVE  Recovers(a)'
<1> USE DEF IInv, TypeOK
<1>a. /\ pc[a] # "idle" => draft[a] \in Proposals
      /\ journal # NoJournal => journal \in [state : JournalStates, of : Proposals]
      /\ \A p \in Proposals : /\ Tree(p, TRUE) # Absent
                               /\ Tree(p, TRUE).whole
                               /\ Tree(p, TRUE).of = p
  BY TreesAreWhole DEF Vouched, Approved, Trees, Journals
<1>b. ASSUME NEW s \in JournalStates, pc[a] # "idle", Journaled(a, s)
      PROVE  journal' # NoJournal /\ journal'.state = s /\ journal'.of = draft[a]
  BY <1>a, <1>b, MarksAssumption DEF Journaled
<1>c. {"preparing", "staged", "backup", "swapped", "committed"} \subseteq JournalStates
  BY DEF JournalStates
<1>d. pc[a] # "idle" /\ journal # NoJournal => journal.of = draft[a]
  BY <1>a DEF OneDraft
<1> USE DEF Recovers, Loads, JournalTrue, Placed, Owned, BeforeSwap, AfterSwap, Swapping, Installed
<1>1. CASE Look(a)
  <2>1. UNCHANGED <<applied, disk, had, faults>> /\ pc[a] = "look"
    BY <1>1 DEF Look
  <2>2. CASE Installed(draft[a]) /\ At(a, "mark") /\ done' = [done EXCEPT ![a] = TRUE]
             /\ UNCHANGED <<draft, resuming>>
    BY <1>a, <1>d, <2>1, <2>2 DEF At
  <2>3. CASE Stale(draft[a]) /\ At(a, "idle") /\ Cleared(a)
    <3>1. journal # NoJournal => \A q \in Proposals : journal.of = q
      BY <1>a DEF OneDraft
    <3> QED
      BY <1>a, <2>1, <2>3, <3>1 DEF At, Cleared
  <2>4. CASE ~Installed(draft[a]) /\ At(a, "recover") /\ UNCHANGED <<draft, resuming, done>>
    BY <1>a, <2>1, <2>4 DEF At
  <2> QED
    BY <1>1, <2>2, <2>3, <2>4 DEF Look
<1>2. CASE Recover(a)
  <2>1. UNCHANGED <<inbox, disk, draft, done, had, faults>> /\ pc[a] = "recover"
    BY <1>2 DEF Recover
  <2>2. CASE journal # NoJournal /\ journal.of = draft[a]
    <3>1. pc' = [pc EXCEPT ![a] = ResumeAt(journal.state)] /\ resuming'[a]
      BY <1>2, <2>1, <2>2 DEF Recover, At
    <3>2. CASE journal.state = "preparing"
      BY <1>a, <2>1, <2>2, <3>1, <3>2 DEF ResumeAt
    <3>3. CASE journal.state \in {"staged", "backup"}
      <4>1. pc'[a] \in {"wipeBackup", "install"} /\ staging = Tree(draft[a], TRUE)
        BY <2>1, <2>2, <3>1, <3>3 DEF ResumeAt
      <4>2. pc'[a] = "install" => dest = Absent
        BY <2>1, <2>2, <3>1, <3>3 DEF ResumeAt
      <4> QED
        BY <1>a, <2>1, <2>2, <3>1, <3>3, <4>1, <4>2
    <3>4. CASE journal.state \in {"swapped", "committed"}
      BY <1>a, <2>1, <2>2, <3>1, <3>4 DEF ResumeAt
    <3>5. journal.state \in JournalStates
      BY <1>a, <2>2
    <3> QED
      BY <3>2, <3>3, <3>4, <3>5 DEF JournalStates
  <2>3. CASE ~(journal # NoJournal /\ journal.of = draft[a])
    <3>1. journal = NoJournal /\ pc' = [pc EXCEPT ![a] = "lookAgain"] /\ UNCHANGED resuming
      BY <1>2, <1>d, <2>1, <2>3 DEF Recover, At
    <3> QED
      BY <2>1, <3>1
  <2> QED
    BY <2>2, <2>3
<1>3. CASE LookAgain(a)
  BY <1>3, <1>a DEF LookAgain, At
<1>4. CASE WipeStaging(a)
  BY <1>4, <1>a DEF WipeStaging, Reach, At, DiskStep
<1>5. CASE Prepare(a)
  BY <1>5, <1>a, <1>b, <1>c DEF Prepare, Reach, At, DiskStep
<1>6. CASE WriteSome(a)
  BY <1>6, <1>a DEF WriteSome, DiskStep
<1>7. CASE WriteRest(a)
  BY <1>7, <1>a DEF WriteRest, Reach, At, DiskStep
<1>8. CASE Stage(a)
  BY <1>8, <1>a, <1>b, <1>c DEF Stage, Reach, At, DiskStep
<1>9. CASE WipeBackup(a)
  BY <1>9, <1>a DEF WipeBackup, At, DiskStep
<1>10. CASE MoveAway(a)
  BY <1>10, <1>a DEF MoveAway, Reach, At, DiskStep
<1>11. CASE NoteBackup(a)
  BY <1>11, <1>a, <1>b, <1>c DEF NoteBackup, Reach, At, DiskStep
<1>12. CASE Install(a)
  <2>1. /\ pc[a] = "install" /\ pc' = [pc EXCEPT ![a] = "noteSwap"]
        /\ dest' = Tree(draft[a], TRUE) /\ draft[a] \in Proposals
        /\ UNCHANGED <<inbox, backup, journal, draft, resuming, done, faults>>
    BY <1>12, <1>a DEF Install, Reach, At
  <2>2. dest' # Absent /\ dest'.whole
    BY <1>a, <2>1
  <2> QED
    BY <1>d, <2>1, <2>2
<1>13. ~InstalledBefore(a)
  BY <1>a DEF InstalledBefore, Reach
<1>14. CASE NoteSwap(a)
  BY <1>14, <1>a, <1>b, <1>c DEF NoteSwap, Reach, At, DiskStep
<1>15. CASE RenameFails(a)
  BY <1>15, <1>a, <1>d DEF RenameFails, At, Cleared
<1>16. CASE DropStaging(a)
  BY <1>16, <1>a DEF DropStaging, Reach, At, DiskStep
<1>17. CASE DropBackup(a)
  BY <1>17, <1>a DEF DropBackup, Reach, At, DiskStep
<1>18. CASE Commit(a)
  <2>1. /\ pc[a] = "commit" /\ pc' = [pc EXCEPT ![a] = "unlink"]
        /\ UNCHANGED <<dest, staging, backup, inbox, draft, resuming, done, had, faults>>
        /\ dest # Absent
    BY <1>18 DEF Commit, Reach, At, DiskStep
  <2>2. CASE journal = NoJournal
    BY <1>18, <1>a, <2>1, <2>2 DEF Commit
  <2>3. CASE journal # NoJournal
    <3>1. journal'.of = journal.of /\ journal'.state = "committed"
      BY <1>18, <1>a, <2>3 DEF Commit
    <3> QED
      BY <1>a, <2>1, <2>3, <3>1
  <2> QED
    BY <2>2, <2>3
<1>19. CASE Unlink(a)
  <2>1. /\ pc[a] = "unlink" /\ journal' = NoJournal
        /\ UNCHANGED <<inbox, dest, staging, backup, had, faults>>
        /\ dest # Absent
    BY <1>19 DEF Unlink
  <2>2. CASE resuming[a] /\ At(a, "lookAgain") /\ UNCHANGED <<draft, resuming, done>>
    BY <1>a, <2>1, <2>2 DEF At
  <2>3. CASE ~resuming[a] /\ done[a] /\ At(a, "idle") /\ Cleared(a)
    BY <1>a, <2>1, <2>3 DEF At, Cleared
  <2>4. CASE ~resuming[a] /\ ~done[a] /\ At(a, "mark") /\ UNCHANGED <<draft, resuming, done>>
    BY <1>a, <2>1, <2>4 DEF At
  <2> QED
    BY <1>19, <2>2, <2>3, <2>4 DEF Unlink
<1>20. CASE Discard(a)
  BY <1>20, <1>a DEF Discard, Reach, At, DiskStep
<1>21. CASE Forget(a)
  BY <1>21, <1>a DEF Forget, Reach, At, DiskStep
<1>22. CASE Mark(a)
  BY <1>22, <1>a, <1>d DEF Mark, At, Cleared
<1> QED
  BY <1>1, <1>2, <1>3, <1>4, <1>5, <1>6, <1>7, <1>8, <1>9, <1>10, <1>11, <1>12, <1>13, <1>14,
     <1>15, <1>16, <1>17, <1>18, <1>19, <1>20, <1>21, <1>22 DEF Step

RecoverInv == \A a \in Acceptors : Recovers(a)

(* As long as it is one draft that is accepted, and accepted again, any    *)
(* number of crashes, torn removals included, neither loses the skill nor  *)
(* leaves part of it in place (accept_approved, _resume_journal).          *)
THEOREM RetriesRecover ==
    ASSUME Alone, OneDraft, Acceptors # {} PROVE Spec => [](NeverLost /\ NeverHalfApplied)
<1>1. Init => RecoverInv
  <2> SUFFICES ASSUME Init, NEW a \in Acceptors PROVE Recovers(a)
    BY DEF RecoverInv
  <2> QED
    BY TreesAreWhole DEF Init, Recovers, Loads, JournalTrue, Placed, BeforeSwap, AfterSwap,
       Swapping, Trees
<1>2. IInv /\ Owned /\ RecoverInv /\ [Next]_vars => RecoverInv'
  <2> SUFFICES ASSUME IInv, Owned, RecoverInv, [Next]_vars, NEW a \in Acceptors
               PROVE  Recovers(a)'
    BY DEF RecoverInv
  <2> USE DEF RecoverInv
  <2>1. ASSUME NEW b \in Acceptors, Step(b) \/ Crash(b) \/ Tear(b) PROVE Recovers(a)'
    <3>1. a = b
      BY DEF Alone
    <3> QED
      BY <2>1, <3>1, StepRecovers, CrashRecovers
  <2>2. ASSUME NEW p \in Proposals, Decide(p) PROVE Recovers(a)'
    BY <2>2 DEF Decide, Recovers, Loads, JournalTrue, Placed, Installed
  <2>3. ASSUME NEW b \in Acceptors, NEW p \in Proposals, Begin(b, p) PROVE Recovers(a)'
    <3>1. a = b
      BY DEF Alone
    <3> QED
      BY <2>3, <3>1 DEF Begin, Reach, At, Recovers, Loads, JournalTrue, Placed, Installed,
         BeforeSwap, AfterSwap, Swapping, IInv, TypeOK
  <2>4. CASE UNCHANGED vars
    BY <2>4 DEF Recovers, Loads, JournalTrue, Placed, Installed
  <2> QED
    BY <2>1, <2>2, <2>3, <2>4 DEF Next
<1>3. IInv /\ RecoverInv => NeverLost /\ NeverHalfApplied
  <2> SUFFICES ASSUME IInv, RecoverInv PROVE NeverLost /\ NeverHalfApplied
    OBVIOUS
  <2>1. PICK a \in Acceptors : Recovers(a)
    BY DEF RecoverInv
  <2>2. ASSUME had, dest = Absent PROVE staging # Absent /\ staging.whole
    <3>1. journal # NoJournal /\ journal.state \in {"staged", "backup"} /\ pc[a] # "prepare"
      BY <2>1, <2>2 DEF Recovers
    <3>2. journal.of \in Proposals /\ Tree(journal.of, TRUE) # Absent
      BY <3>1, TreesAreWhole DEF IInv, TypeOK, Journals, Trees
    <3>3. staging = Tree(journal.of, TRUE)
      BY <2>1, <2>2, <3>1, <3>2 DEF Recovers, JournalTrue, Installed
    <3> QED
      BY <3>2, <3>3, TreesAreWhole DEF Trees
  <2> QED
    BY <2>1, <2>2 DEF NeverLost, Kept, NeverHalfApplied, Recovers, Loads
<1>4. Spec => []Owned
  BY InitIInv, IInvAlways, NextOwned, PTL DEF Spec
<1> QED
  BY <1>1, <1>2, <1>3, <1>4, IInvAlways, PTL DEF Spec
=============================================================================
