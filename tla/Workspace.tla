----------------------------- MODULE Workspace ------------------------------
(***************************************************************************)
(* The files that proofs are checked in: the unique file of every          *)
(* compile_lean_code() and verify() and the reports of the latter, in      *)
(* src/src/lean_verifier.py; the working file of an agent session, in      *)
(* src/src/proof_file_controller.py; and the clean-up at the API's start,  *)
(* in src/src/api.py.                                                      *)
(*                                                                         *)
(* The API and scripts (benchmarks, stress tests) are processes that share *)
(* the directory.  Names hold a uuid, so a file is named by its owner, and *)
(* what it contains is its owner's code.                                   *)
(***************************************************************************)
EXTENDS Naturals, FiniteSets

CONSTANTS
  Verifies,    \* calls of verify()
  Compiles,    \* calls of compile_lean_code() by the endpoint /lean_compile
  Sessions,    \* agent sessions, each with its working file
  Outside,     \* those of them that belong to a script, not to the API
  Named,       \* those of Compiles whose request names the file
  Nobody,      \* an output that does not exist
  MaxSeconds,  \* bound on the clock
  MaxCrashes   \* bound on the API's crashes

Checks == Verifies \union Compiles
Work   == Checks \union Sessions
Served == Work \ Outside

ASSUME WorkAssumption ==
  /\ Verifies \intersect Compiles = {} /\ Checks \intersect Sessions = {}
  /\ Outside \subseteq Work /\ Named \subseteq Compiles
  /\ Nobody \notin Work
ASSUME BoundAssumption == MaxSeconds \in Nat /\ MaxCrashes \in Nat

VARIABLES
  server,   \* the API's process
  listed,   \* files its clean-up has yet to remove
  pc,       \* where each piece of work stands
  files,    \* owners of the files in LeanEcon/
  missing,  \* checks that failed because their file was not there
  clock,    \* the time in seconds
  stamp,    \* the second in the names of a call's outputs
  code,     \* outputs/Proof_<second>.lean: whose code it is
  report,   \* outputs/Proof_<second>_report.md: whose report it is
  crashes,
  robbed    \* history: work whose file the clean-up removed while it ran

outputs == <<clock, stamp, code, report>>
vars == <<server, listed, pc, files, missing, outputs, crashes, robbed>>

Seconds == 0 .. MaxSeconds
Resting == {"idle", "done", "raised", "lost"}
PC      == Resting \union {"compiling", "auditing", "unlinking", "saving", "reporting", "open"}

Init ==
  /\ server = "down" /\ listed = {} /\ crashes = 0
  /\ pc = [w \in Work |-> "idle"]
  /\ files = {} /\ missing = {} /\ robbed = {}
  /\ clock = 0
  /\ stamp = [v \in Verifies |-> 0]
  /\ code = [s \in Seconds |-> Nobody] /\ report = [s \in Seconds |-> Nobody]

At(w, from, to) == pc[w] = from /\ pc' = [pc EXCEPT ![w] = to]
Alive(w)        == w \in Outside \/ server = "up"

-----------------------------------------------------------------------------
(* compile_lean_code() writes its file; if the disk is full it raises, and *)
(* the finally clause that removes the file has not begun;                 *)
WriteFile(c) ==
  /\ Alive(c)
  /\ \/ At(c, "idle", "compiling") /\ files' = files \union {c}
     \/ At(c, "idle", "raised") /\ files' \in {files, files \union {c}}
  /\ UNCHANGED <<server, listed, missing, outputs, crashes, robbed>>

(* compiles it with a time limit: a file that is gone fails like one that  *)
(* is wrong or slow;                                                       *)
Compile(c) ==
  /\ \/ At(c, "compiling", "unlinking")
     \/ c \in files /\ At(c, "compiling", "auditing")
  /\ missing' = IF c \in files THEN missing ELSE missing \union {c}
  /\ UNCHANGED <<server, listed, files, outputs, crashes, robbed>>

(* asks for the axioms of one that passed, which never changes the         *)
(* verdict, whatever the session answers or raises;                        *)
VerifyAxioms(c) ==
  /\ At(c, "auditing", "unlinking")
  /\ UNCHANGED <<server, listed, files, missing, outputs, crashes, robbed>>

(* and removes the file if it is still there.  verify() goes on to save.   *)
Unlink(c) ==
  /\ At(c, "unlinking", IF c \in Verifies THEN "saving" ELSE "done")
  /\ files' = files \ {c}
  /\ UNCHANGED <<server, listed, missing, outputs, crashes, robbed>>

(* A mutant: the time is rounded up. *)
SaveCode_RoundedUp(v) ==
  /\ At(v, "saving", "reporting")
  /\ stamp' = [stamp EXCEPT ![v] = clock + 1]
  /\ code' = [code EXCEPT ![clock + 1] = v]
  /\ UNCHANGED <<server, listed, files, missing, clock, report, crashes, robbed>>

(* _save_to_outputs(): first the code, then the report, under one name.    *)
SaveCode(v) ==
  /\ At(v, "saving", "reporting")
  /\ stamp' = [stamp EXCEPT ![v] = clock]
  /\ code' = [code EXCEPT ![clock] = v]
  /\ UNCHANGED <<server, listed, files, missing, clock, report, crashes, robbed>>

(* A mutant: the report is named by the time it is written. *)
SaveReport_Late(v) ==
  /\ At(v, "reporting", "done")
  /\ report' = [report EXCEPT ![clock] = v]
  /\ UNCHANGED <<server, listed, files, missing, clock, stamp, code, crashes, robbed>>

SaveReport(v) ==
  /\ At(v, "reporting", "done")
  /\ report' = [report EXCEPT ![stamp[v]] = v]
  /\ UNCHANGED <<server, listed, files, missing, clock, stamp, code, crashes, robbed>>

(* A file that cannot be written: verify() raises, its verdict is lost.    *)
SaveFails(v) ==
  /\ At(v, "saving", "raised") \/ At(v, "reporting", "raised")
  /\ UNCHANGED <<server, listed, files, missing, outputs, crashes, robbed>>

-----------------------------------------------------------------------------
(* ProofFileController: initialize() *)
Open(s) ==
  /\ Alive(s)
  /\ At(s, "idle", "open")
  /\ files' = files \union {s}
  /\ UNCHANGED <<server, listed, missing, outputs, crashes, robbed>>

(* A tactic or a restored checkpoint is written: the file is made anew if  *)
(* it was gone.                                                            *)
Rewrite(s) ==
  /\ pc[s] = "open"
  /\ files' = files \union {s}
  /\ UNCHANGED <<server, listed, pc, missing, outputs, crashes, robbed>>

(* cleanup() asks whether the file is there and then removes it; a file    *)
(* that goes in between makes unlink() raise.                              *)
CleanupLooks(s) ==
  /\ At(s, "open", IF s \in files THEN "unlinking" ELSE "done")
  /\ UNCHANGED <<server, listed, files, missing, outputs, crashes, robbed>>

CleanupUnlinks(s) ==
  /\ At(s, "unlinking", IF s \in files THEN "done" ELSE "raised")
  /\ files' = files \ {s}
  /\ UNCHANGED <<server, listed, missing, outputs, crashes, robbed>>

-----------------------------------------------------------------------------
(* The API's process dies with the work it does: no finally clause runs.   *)
Crash ==
  /\ server # "down" /\ crashes < MaxCrashes
  /\ crashes' = crashes + 1
  /\ server' = "down" /\ listed' = {}
  /\ pc' = [w \in Work |-> IF w \in Served /\ pc[w] \notin Resting THEN "lost" ELSE pc[w]]
  /\ UNCHANGED <<files, missing, outputs, robbed>>

(* A mutant: the pattern matches working files only. *)
Matches_Sessions(w) == w \in Sessions

(* AGENTIC_TEMP_FILE_GLOB: the prefix that both kinds of file share, which *)
(* a name of the client's replaces.                                        *)
Matches(w) == w \notin Named

(* A mutant: the clean-up is repeated while the API serves. *)
StartUp_AnyTime ==
  /\ server \in {"down", "up"}
  /\ server' = "starting"
  /\ listed' = {w \in files : Matches(w)}
  /\ UNCHANGED <<pc, files, missing, outputs, crashes, robbed>>

(* app_lifespan(): the files are listed, and removed one by one; one that  *)
(* is gone by then is passed over.                                         *)
StartUp ==
  /\ server = "down"
  /\ server' = "starting"
  /\ listed' = {w \in files : Matches(w)}
  /\ UNCHANGED <<pc, files, missing, outputs, crashes, robbed>>

RemoveOne(w) ==
  /\ server = "starting" /\ w \in listed
  /\ listed' = listed \ {w}
  /\ files' = files \ {w}
  /\ robbed' = IF w \in files /\ pc[w] \notin Resting THEN robbed \union {w} ELSE robbed
  /\ UNCHANGED <<server, pc, missing, outputs, crashes>>

Serve ==
  /\ server = "starting" /\ listed = {}
  /\ server' = "up"
  /\ UNCHANGED <<listed, pc, files, missing, outputs, crashes, robbed>>

Tick ==
  /\ clock < MaxSeconds
  /\ clock' = clock + 1
  /\ UNCHANGED <<server, listed, pc, files, missing, stamp, code, report, crashes, robbed>>

-----------------------------------------------------------------------------
CheckStep(c)   == WriteFile(c) \/ Compile(c) \/ VerifyAxioms(c) \/ Unlink(c)
VerifyStep(v)  == SaveCode(v) \/ SaveReport(v) \/ SaveFails(v)
SessionStep(s) == Open(s) \/ Rewrite(s) \/ CleanupLooks(s) \/ CleanupUnlinks(s)
ServerStep     == Crash \/ StartUp \/ (\E w \in Work : RemoveOne(w)) \/ Serve

Next ==
  \/ \E c \in Checks : CheckStep(c)
  \/ \E v \in Verifies : VerifyStep(v)
  \/ \E s \in Sessions : SessionStep(s)
  \/ ServerStep \/ Tick

Spec == Init /\ [][Next]_vars

-----------------------------------------------------------------------------
(* Properties.                                                             *)

(* Every variable has its type. *)
TypeOK ==
  /\ server \in {"down", "starting", "up"}
  /\ listed \in SUBSET Work /\ files \in SUBSET Work /\ robbed \in SUBSET Work
  /\ missing \in SUBSET Checks
  /\ pc \in [Work -> PC]
  /\ clock \in Seconds /\ stamp \in [Verifies -> Seconds]
  /\ code \in [Seconds -> Verifies \union {Nobody}]
  /\ report \in [Seconds -> Verifies \union {Nobody}]
  /\ crashes \in 0 .. MaxCrashes

(* api.py: the clean-up at the start takes no file from a request that the *)
(* API serves, before or after a crash: only a script can lose one; only   *)
(* for that does a proof fail unread, or a session in its last step.       *)
ServedKeepFiles ==
  /\ robbed \subseteq Outside
  /\ missing \subseteq robbed
  /\ \A s \in Sessions : pc[s] = "raised" => s \in robbed

(* api.py: once the API serves again, what its crash left behind is gone,  *)
(* but for files that a client named.  Work that ends leaves nothing.      *)
OrphansGone ==
  /\ \A w \in Work \ Named : w \in files /\ pc[w] = "lost" => server # "up"
  /\ \A w \in Work : pc[w] \in {"idle", "done"} => w \notin files

(* lean_verifier.py: a report stands beside the code of its own call or of *)
(* one that saved in the same second, however long a call takes.           *)
OutputsPaired ==
  \A s \in Seconds : report[s] # Nobody /\ code[s] # report[s] =>
    stamp[report[s]] = s /\ stamp[code[s]] = s
=============================================================================
