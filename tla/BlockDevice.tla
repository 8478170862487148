---------------------------- MODULE BlockDevice ----------------------------
(***************************************************************************)
(* What a storage driver promises behind a block device's operations table *)
(* (struct ios_block_device_operations), and what BlockCache assumes of    *)
(* it: a call that succeeds has had its effect, a read returns the content *)
(* of its sector, a flush that succeeds leaves nothing volatile, and a     *)
(* failed write leaves the old or the new value, in its own sector only,   *)
(* possibly long after the call has returned.  The promise ends when the   *)
(* driver has lost track of a request.                                     *)
(***************************************************************************)
CONSTANTS Sector, Value,
          NoValue       \* what a call that carries no value has in its place

VARIABLES kept,         \* no request has been lost track of
          attached,     \* a device has been published
          may,          \* [Sector -> SUBSET Value]: what a sector may hold
          stable,       \* [Sector -> Value]: what a power loss would leave
          call,         \* the call in progress
          answer        \* what the last call returned

bdVars == <<kept, attached, may, stable, call, answer>>

NoCall == [op |-> "none", sector |-> NoValue, value |-> NoValue]
Call == [op : {"read"}, sector : Sector, value : {NoValue}]
          \cup [op : {"write"}, sector : Sector, value : Value]
          \cup [op : {"flush"}, sector : {NoValue}, value : {NoValue}]

NoAnswer == [status |-> "none", value |-> NoValue]
Error == [status |-> "error", value |-> NoValue]
Ok(v) == [status |-> "ok", value |-> v]

BdInit ==
    /\ kept = TRUE
    /\ attached = FALSE
    /\ may = [s \in Sector |-> {}]
    /\ stable = [s \in Sector |-> NoValue]
    /\ call = NoCall
    /\ answer = NoAnswer

BdAttach ==
    /\ ~attached /\ attached'
    /\ stable' \in [Sector -> Value]
    /\ may' = [s \in Sector |-> {stable'[s]}]
    /\ UNCHANGED <<call, answer>>

BdStart ==
    /\ attached /\ call = NoCall
    /\ call' \in Call
    /\ answer' = NoAnswer
    /\ may' = IF call'.op = "write"
              THEN [may EXCEPT ![call'.sector] = @ \cup {call'.value}] ELSE may
    /\ UNCHANGED <<attached, stable>>

(* Of the values a sector in doubt may hold, some are ruled out.            *)
BdSettle ==
    /\ attached
    /\ \E s \in Sector : \E left \in (SUBSET may[s]) \ {{}} : may' = [may EXCEPT ![s] = left]
    /\ UNCHANGED <<attached, stable, call, answer>>

(* The medium takes over some of what the sectors hold.                     *)
BdPersist ==
    /\ attached
    /\ stable' \in [Sector -> Value]
    /\ \A s \in Sector : stable'[s] \in {stable[s]} \cup may[s]
    /\ UNCHANGED <<attached, may, call, answer>>

Granted ==
    \/ call.op = "read" /\ may[call.sector] = {answer'.value}
    \/ call.op = "write" /\ may[call.sector] = {call.value} /\ answer'.value = NoValue
    \/ call.op = "flush" /\ answer'.value = NoValue
       /\ \A s \in Sector : may[s] = {stable[s]}

BdFinish ==
    /\ attached /\ call # NoCall
    /\ call' = NoCall
    /\ answer' = Error \/ (answer'.status = "ok" /\ Granted)
    /\ UNCHANGED <<attached, may, stable>>

(* The driver refuses a call at once and starts nothing.                    *)
BdRefuse ==
    /\ attached /\ call = NoCall
    /\ answer' = Error
    /\ UNCHANGED <<attached, may, stable, call>>

BdNext == BdAttach \/ BdStart \/ BdSettle \/ BdPersist \/ BdFinish \/ BdRefuse

(* Up to the moment a request is lost track of, which is final.             *)
BdStep == kept' => kept /\ BdNext

BdSpec == BdInit /\ [][BdStep]_bdVars
=============================================================================
