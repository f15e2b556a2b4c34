------------------------------ MODULE Scheduler -----------------------------
(***************************************************************************)
(* How a transaction gets executed: run_single_tx (processor.rs) sends it  *)
(* to the thread of Core (core/mod.rs) over a channel; the thread polls    *)
(* the future of the transaction once and sends it back, finished or not.  *)
(* A read of the world state is wrapped in a TxExecReady (core/exec.rs),   *)
(* which is put on the ready list first and set ready when the read is     *)
(* done.  An unfinished transaction is sent again when all that was on its *)
(* ready list is ready.                                                    *)
(***************************************************************************)
EXTENDS Naturals, Sequences, FiniteSets

CONSTANT NumReads   \* how often the transaction reads the world state

VARIABLES
  processor,        \* where run_single_tx is: "send", "recv", "await", "done"
  core,             \* where the thread is: "recv" or "poll"
  coreIn, coreOut,  \* the channels
  done,             \* number of reads the transaction has finished
  reading,          \* is it in the middle of the next one?
  answered,         \* has the state source the answer to it?
  readyList,        \* TxExecReady objects, named by the read they are for
  drained,          \* the ones run_single_tx still has to await
  ready             \* the ones that are set ready

vars == <<processor, core, coreIn, coreOut, done, reading, answered,
          readyList, drained, ready>>

Init ==
  /\ processor = "send" /\ core = "recv"
  /\ coreIn = << >> /\ coreOut = << >>
  /\ done = 0 /\ reading = FALSE /\ answered = FALSE
  /\ readyList = << >> /\ drained = << >> /\ ready = {}

-----------------------------------------------------------------------------
(* run_single_tx.                                                          *)

Send ==
  /\ processor = "send"
  /\ processor' = "recv"
  /\ coreIn' = Append(coreIn, "Running")
  /\ UNCHANGED <<core, coreOut, done, reading, answered, readyList, drained, ready>>

DrainReadyList == drained' = readyList /\ readyList' = << >>

Recv ==
  /\ processor = "recv" /\ coreOut # << >>
  /\ coreOut' = Tail(coreOut)
  /\ \/ /\ Head(coreOut) = "Finished"
        /\ processor' = "done"
        /\ UNCHANGED <<readyList, drained>>
     \/ /\ Head(coreOut) = "Running"
        /\ processor' = "await"
        /\ DrainReadyList
  /\ UNCHANGED <<core, coreIn, done, reading, answered, ready>>

Await ==
  /\ processor = "await"
  /\ \/ drained # << >> /\ Head(drained) \in ready /\ drained' = Tail(drained)
        /\ UNCHANGED processor
     \/ drained = << >> /\ processor' = "send" /\ UNCHANGED drained
  /\ UNCHANGED <<core, coreIn, coreOut, done, reading, answered, readyList, ready>>

-----------------------------------------------------------------------------
(* The thread of Core and, inside its poll, the transaction.               *)

Take ==
  /\ core = "recv" /\ coreIn # << >>
  /\ core' = "poll" /\ coreIn' = Tail(coreIn)
  /\ UNCHANGED <<processor, coreOut, done, reading, answered, readyList, drained, ready>>

GiveBack(how) == core' = "recv" /\ coreOut' = Append(coreOut, how)

(* TxExecReady::wrap up to its await. *)
StartRead ==
  /\ core = "poll" /\ ~reading /\ done < NumReads
  /\ reading' = TRUE
  /\ answered' \in BOOLEAN
  /\ readyList' = Append(readyList, done + 1)
  /\ UNCHANGED <<processor, core, coreIn, coreOut, done, drained, ready>>

(* ... and after it: set_ready, through the reference that wrap kept. It   *)
(* reaches the object if that is still on the list.                        *)
SetReady(r) ==
  ready' = IF \E i \in DOMAIN readyList : readyList[i] = r THEN ready \cup {r} ELSE ready

EndRead ==
  /\ core = "poll" /\ reading /\ answered
  /\ SetReady(done + 1)
  /\ done' = done + 1 /\ reading' = FALSE /\ answered' = FALSE
  /\ UNCHANGED <<processor, core, coreIn, coreOut, readyList, drained>>

(* The poll returns Pending. *)
Pending ==
  /\ core = "poll" /\ reading /\ ~answered
  /\ GiveBack("Running")
  /\ UNCHANGED <<processor, coreIn, done, reading, answered, readyList, drained, ready>>

Finish ==
  /\ core = "poll" /\ ~reading /\ done = NumReads
  /\ GiveBack("Finished")
  /\ UNCHANGED <<processor, coreIn, done, reading, answered, readyList, drained, ready>>

(* The source of the world state; it wakes nobody (noop_waker). *)
Answer ==
  /\ reading /\ ~answered
  /\ answered' = TRUE
  /\ UNCHANGED <<processor, core, coreIn, coreOut, done, reading, readyList, drained, ready>>

Next == Send \/ Recv \/ Await \/ Take \/ StartRead \/ EndRead \/ Pending \/ Finish \/ Answer

(* Every thread and the source go on as long as they can. *)
FairSpec ==
  /\ Init /\ [][Next]_vars
  /\ WF_vars(Send \/ Recv \/ Await)
  /\ WF_vars(Take \/ StartRead \/ EndRead \/ Pending \/ Finish)
  /\ WF_vars(Answer)

-----------------------------------------------------------------------------
(* "It will keep feeding the transaction back to the core until it         *)
(* finishes execution" (processor.rs:9); "When all TxExecReady futures     *)
(* resolve, the transaction is guaranteed to make some progress"           *)
(* (core/exec.rs:248): however long the source takes, the transaction      *)
(* finishes.                                                               *)
FinishesExecution == <>(processor = "done")
=============================================================================
