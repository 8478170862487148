---------------------------- MODULE OrderedDisk ----------------------------
(***************************************************************************)
(* What the storage stack promises to the file system above it: sectors    *)
(* are read back as last written, and a barrier that reports success is a  *)
(* point no crash goes back behind.  Between two barriers nothing is       *)
(* promised about order: after a crash every sector independently holds    *)
(* its content at the last barrier or any value written to it since.       *)
(***************************************************************************)
EXTENDS Naturals

CONSTANTS Sector,   \* addresses of the device
          Value     \* contents of a sector

VARIABLES view,     \* [Sector -> Value]: what a read returns
          floor,    \* [Sector -> Value]: the content at the last good barrier
          since     \* [Sector -> SUBSET Value]: values written since then

diskVars == <<view, floor, since>>

NothingSince == [s \in Sector |-> {}]

DiskInit ==
    /\ view \in [Sector -> Value]
    /\ floor = view
    /\ since = NothingSince

DiskWrite(s, v) ==
    /\ view' = [view EXCEPT ![s] = v]
    /\ since' = [since EXCEPT ![s] = @ \cup {v}]
    /\ UNCHANGED floor

(* A burst of writes, one to each sector of DOMAIN image.                   *)
DiskWriteAll(image) ==
    /\ view' = [s \in Sector |-> IF s \in DOMAIN image THEN image[s] ELSE view[s]]
    /\ since' = [s \in Sector |-> IF s \in DOMAIN image
                                 THEN since[s] \cup {image[s]} ELSE since[s]]
    /\ UNCHANGED floor

DiskBarrier ==
    /\ floor' = view
    /\ since' = NothingSince
    /\ UNCHANGED view

(* Power is lost: each sector keeps its floor or one of the values since.   *)
DiskCrash ==
    /\ view' \in [Sector -> Value]
    /\ \A s \in Sector : view'[s] \in {floor[s]} \cup since[s]
    /\ floor' = view'
    /\ since' = NothingSince

(* The same step, enumerated over the sectors written since the barrier.    *)
DiskPowerLoss ==
    LET written == {s \in Sector : since[s] # {}}
        outcomes == UNION {{floor[s]} \cup since[s] : s \in written}
    IN  \E image \in [written -> outcomes] :
          /\ \A s \in written : image[s] \in {floor[s]} \cup since[s]
          /\ view' = [s \in Sector |-> IF s \in written THEN image[s] ELSE floor[s]]
          /\ floor' = view'
          /\ since' = NothingSince

DiskNext ==
    \/ \E s \in Sector, v \in Value : DiskWrite(s, v)
    \/ DiskBarrier
    \/ DiskCrash

DiskSpec == DiskInit /\ [][DiskNext]_diskVars
=============================================================================
