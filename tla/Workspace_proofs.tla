-------------------------- MODULE Workspace_proofs --------------------------
(***************************************************************************)
(* What Workspace promises, for any number of checks and sessions, inside  *)
(* the API and outside it, any number of crashes and any length of time.   *)
(***************************************************************************)
EXTENDS Workspace, TLAPS

-----------------------------------------------------------------------------
(* Who takes a step, and what it leaves alone.                             *)

LEMMA Kinds ==
  /\ \A v \in Verifies : v \in Checks /\ v \notin Sessions
  /\ \A c \in Checks : c \in Work /\ c \notin Sessions
  /\ \A s \in Sessions : s \in Work /\ s \notin Checks
  /\ Outside \subseteq Work /\ Nobody \notin Work
BY WorkAssumption DEF Checks, Work

LEMMA Times == MaxSeconds \in Nat /\ MaxCrashes \in Nat
BY BoundAssumption

(* Every variable keeps its type. *)
THEOREM TypeCorrect == Spec => []TypeOK
<1>1. Init => TypeOK
  BY Times DEF Init, TypeOK, Seconds, PC, Resting
<1>2. TypeOK /\ [Next]_vars => TypeOK'
  <2> SUFFICES ASSUME TypeOK, [Next]_vars PROVE TypeOK'
    OBVIOUS
  <2> USE Kinds DEF TypeOK, At, PC, Resting
  <2>1. ASSUME NEW c \in Checks, CheckStep(c) PROVE TypeOK'
    BY <2>1 DEF CheckStep, WriteFile, Compile, VerifyAxioms, Unlink, outputs
  <2>2. ASSUME NEW v \in Verifies, VerifyStep(v) PROVE TypeOK'
    BY <2>2 DEF VerifyStep, SaveCode, SaveReport, SaveFails, outputs
  <2>3. ASSUME NEW s \in Sessions, SessionStep(s) PROVE TypeOK'
    BY <2>3 DEF SessionStep, Open, Rewrite, CleanupLooks, CleanupUnlinks, outputs
  <2>4. CASE Crash
    BY <2>4, Times DEF Crash, outputs
  <2>5. CASE StartUp
    BY <2>5 DEF StartUp, outputs
  <2>6. CASE \E w \in Work : RemoveOne(w)
    BY <2>6 DEF RemoveOne, outputs
  <2>7. CASE Serve
    BY <2>7 DEF Serve, outputs
  <2>8. CASE Tick
    BY <2>8, Times DEF Tick, Seconds
  <2>9. CASE UNCHANGED vars
    BY <2>9 DEF vars, outputs
  <2> QED
    BY <2>1, <2>2, <2>3, <2>4, <2>5, <2>6, <2>7, <2>8, <2>9 DEF Next, ServerStep
<1> QED
  BY <1>1, <1>2, PTL DEF Spec

-----------------------------------------------------------------------------
(* Nobody served loses a file.                                             *)

(* While the API does not serve, none of its requests is under way. *)
Stopped == server # "up" => \A w \in Served : pc[w] \in Resting

(* Whoever still needs its file has it, unless the clean-up took it.       *)
FilesKept ==
  /\ \A c \in Checks : pc[c] = "compiling" => c \in files \union robbed
  /\ \A s \in Sessions : pc[s] = "unlinking" => s \in files \union robbed

Kept == Stopped /\ FilesKept /\ ServedKeepFiles

LEMMA KeptByCheck ==
  ASSUME TypeOK, Kept, NEW c \in Checks, CheckStep(c)
  PROVE  Kept'
<1> USE Kinds DEF TypeOK, At, Resting
<1>1. Stopped'
  BY DEF Kept, Stopped, Served, Alive, CheckStep, WriteFile, Compile, VerifyAxioms, Unlink
<1>2. FilesKept'
  BY DEF Kept, FilesKept, CheckStep, WriteFile, Compile, VerifyAxioms, Unlink
<1>3. ServedKeepFiles'
  BY DEF Kept, FilesKept, ServedKeepFiles, CheckStep, WriteFile, Compile, VerifyAxioms, Unlink
<1> QED
  BY <1>1, <1>2, <1>3 DEF Kept

LEMMA KeptByVerify ==
  ASSUME TypeOK, Kept, NEW v \in Verifies, VerifyStep(v)
  PROVE  Kept'
<1> USE Kinds DEF TypeOK, At, Resting
<1>1. Stopped'
  BY DEF Kept, Stopped, Served, VerifyStep, SaveCode, SaveReport, SaveFails
<1>2. FilesKept' /\ ServedKeepFiles'
  BY DEF Kept, FilesKept, ServedKeepFiles, VerifyStep, SaveCode, SaveReport, SaveFails
<1> QED
  BY <1>1, <1>2 DEF Kept

LEMMA KeptBySession ==
  ASSUME TypeOK, Kept, NEW s \in Sessions, SessionStep(s)
  PROVE  Kept'
<1> USE Kinds DEF TypeOK, At, Resting
<1>1. Stopped'
  BY DEF Kept, Stopped, Served, Alive, SessionStep, Open, Rewrite, CleanupLooks, CleanupUnlinks
<1>2. FilesKept'
  BY DEF Kept, FilesKept, SessionStep, Open, Rewrite, CleanupLooks, CleanupUnlinks
<1>3. ServedKeepFiles'
  BY DEF Kept, FilesKept, ServedKeepFiles, SessionStep, Open, Rewrite, CleanupLooks,
         CleanupUnlinks
<1> QED
  BY <1>1, <1>2, <1>3 DEF Kept

LEMMA KeptByServer ==
  ASSUME TypeOK, Kept, ServerStep
  PROVE  Kept'
<1> USE Kinds DEF TypeOK, Resting
<1>1. CASE Crash
  BY <1>1 DEF Crash, Kept, Stopped, FilesKept, ServedKeepFiles, Served
<1>2. CASE StartUp \/ Serve
  BY <1>2 DEF StartUp, Serve, Kept, Stopped, FilesKept, ServedKeepFiles
<1>3. ASSUME NEW w \in Work, RemoveOne(w) PROVE Kept'
  <2>1. Stopped'
    BY <1>3 DEF RemoveOne, Kept, Stopped
  <2>2. FilesKept'
    BY <1>3 DEF RemoveOne, Kept, FilesKept
  <2>3. w \in Outside \/ pc[w] \in Resting
    BY <1>3 DEF RemoveOne, Kept, Stopped, Served
  <2> QED
    BY <1>3, <2>1, <2>2, <2>3 DEF RemoveOne, Kept, ServedKeepFiles
<1> QED
  BY <1>1, <1>2, <1>3 DEF ServerStep

(* ServedKeepFiles: the clean-up at the start takes no file from a request *)
(* that the API serves, whatever else runs and however often it crashes.   *)
THEOREM NobodyServedIsRobbed == Spec => []ServedKeepFiles
<1>1. Init => Kept
  BY DEF Init, Kept, Stopped, FilesKept, ServedKeepFiles, Served, Checks, Work, Resting
<1>2. TypeOK /\ Kept /\ [Next]_vars => Kept'
  <2>1. TypeOK /\ Kept /\ (Tick \/ UNCHANGED vars) => Kept'
    BY DEF Tick, vars, Kept, Stopped, FilesKept, ServedKeepFiles
  <2> QED
    BY <2>1, KeptByCheck, KeptByVerify, KeptBySession, KeptByServer DEF Next
<1>3. Kept => ServedKeepFiles
  BY DEF Kept
<1> QED
  BY <1>1, <1>2, <1>3, TypeCorrect, PTL DEF Spec

-----------------------------------------------------------------------------
(* Nothing is left behind.                                                 *)

(* Once the API has begun to start, a file it lost is listed or gone.      *)
Listed ==
  \A w \in Work \ Named : w \in files /\ pc[w] = "lost" =>
    server = "down" \/ (server = "starting" /\ w \in listed)

(* Work that has not begun, or has removed its file, has none.             *)
Tidy == \A w \in Work : pc[w] \in {"idle", "saving", "reporting", "done"} => w \notin files

LEMMA TidyStep ==
  ASSUME TypeOK, Listed, Tidy, [Next]_vars
  PROVE  Listed' /\ Tidy'
<1> USE Kinds DEF TypeOK, At, Listed, Tidy
<1>1. ASSUME NEW c \in Checks, CheckStep(c) PROVE Listed' /\ Tidy'
  BY <1>1 DEF CheckStep, WriteFile, Compile, VerifyAxioms, Unlink
<1>2. ASSUME NEW v \in Verifies, VerifyStep(v) PROVE Listed' /\ Tidy'
  BY <1>2 DEF VerifyStep, SaveCode, SaveReport, SaveFails
<1>3. ASSUME NEW s \in Sessions, SessionStep(s) PROVE Listed' /\ Tidy'
  BY <1>3 DEF SessionStep, Open, Rewrite, CleanupLooks, CleanupUnlinks
<1>4. CASE Crash
  BY <1>4 DEF Crash
<1>5. CASE StartUp
  BY <1>5 DEF StartUp, Matches
<1>6. ASSUME NEW w \in Work, RemoveOne(w) PROVE Listed' /\ Tidy'
  BY <1>6 DEF RemoveOne
<1>7. CASE Serve
  BY <1>7 DEF Serve
<1>8. CASE Tick \/ UNCHANGED vars
  BY <1>8 DEF Tick, vars
<1> QED
  BY <1>1, <1>2, <1>3, <1>4, <1>5, <1>6, <1>7, <1>8 DEF Next, ServerStep

(* OrphansGone: once the API serves again, its last crash has left no file *)
(* that the clean-up could recognize; and work that ended left none.       *)
THEOREM NoOrphans == Spec => []OrphansGone
<1>1. Init => Listed /\ Tidy
  BY DEF Init, Listed, Tidy
<1>2. Listed /\ Tidy => OrphansGone
  BY Kinds DEF Listed, Tidy, OrphansGone
<1> QED
  BY <1>1, <1>2, TidyStep, TypeCorrect, PTL DEF Spec

-----------------------------------------------------------------------------
(* The saved proofs and their reports.                                     *)

(* What is saved under a second was saved by a call that is stamped with   *)
(* it and will not be stamped again; and a report never comes first.       *)
Saved == {"reporting", "done", "raised", "lost"}

Stamped ==
  /\ \A s \in Seconds : code[s] # Nobody => stamp[code[s]] = s /\ pc[code[s]] \in Saved
  /\ \A s \in Seconds : report[s] # Nobody =>
       stamp[report[s]] = s /\ pc[report[s]] \in Saved /\ code[s] # Nobody
  /\ \A v \in Verifies : pc[v] = "reporting" => code[stamp[v]] # Nobody

LEMMA StampedStep ==
  ASSUME TypeOK, Stamped, [Next]_vars
  PROVE  Stamped'
<1> USE Kinds DEF TypeOK, At, Saved, outputs
<1>1. ASSUME NEW c \in Checks, CheckStep(c) PROVE Stamped'
  <2>1. pc[c] \notin {"reporting", "done", "raised", "lost"} /\ pc'[c] # "reporting"
    BY <1>1 DEF CheckStep, WriteFile, Compile, VerifyAxioms, Unlink
  <2>2. \A w \in Work : w # c => pc'[w] = pc[w]
    BY <1>1 DEF CheckStep, WriteFile, Compile, VerifyAxioms, Unlink
  <2>3. UNCHANGED outputs
    BY <1>1 DEF CheckStep, WriteFile, Compile, VerifyAxioms, Unlink
  <2> QED
    BY <2>1, <2>2, <2>3 DEF Stamped
<1>2. ASSUME NEW v \in Verifies, SaveCode(v) PROVE Stamped'
  BY <1>2 DEF SaveCode, Stamped
<1>3. ASSUME NEW v \in Verifies, SaveReport(v) PROVE Stamped'
  BY <1>3 DEF SaveReport, Stamped
<1>4. ASSUME NEW v \in Verifies, SaveFails(v) PROVE Stamped'
  BY <1>4 DEF SaveFails, Stamped
<1>5. ASSUME NEW s \in Sessions, SessionStep(s) PROVE Stamped'
  <2>1. UNCHANGED outputs /\ \A w \in Work : w # s => pc'[w] = pc[w]
    BY <1>5 DEF SessionStep, Open, Rewrite, CleanupLooks, CleanupUnlinks
  <2>2. s \notin Verifies
    BY DEF Checks
  <2> QED
    BY <2>1, <2>2 DEF Stamped
<1>6. CASE Crash
  BY <1>6 DEF Crash, Stamped, Resting
<1>7. CASE StartUp \/ Serve \/ Tick \/ UNCHANGED vars
  BY <1>7 DEF StartUp, Serve, Tick, vars, Stamped
<1>8. ASSUME NEW w \in Work, RemoveOne(w) PROVE Stamped'
  BY <1>8 DEF RemoveOne, Stamped
<1> QED
  BY <1>1, <1>2, <1>3, <1>4, <1>5, <1>6, <1>7, <1>8 DEF Next, ServerStep, VerifyStep

(* OutputsPaired: a report stands beside its own code, or beside that of a *)
(* call that saved in the same second.                                     *)
THEOREM ReportsMatch == Spec => []OutputsPaired
<1>1. Init => Stamped
  BY DEF Init, Stamped, Checks, Work
<1>2. Stamped => OutputsPaired
  BY DEF Stamped, OutputsPaired
<1> QED
  BY <1>1, <1>2, StampedStep, TypeCorrect, PTL DEF Spec
=============================================================================
