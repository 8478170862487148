---------------------------- MODULE MCProcesses ----------------------------
(* A shell whose one segment crosses a page table, a required desktop, and *)
(* applications that are corrupt, malformed or in the way of the stack, on *)
(* machines with every amount of memory from too little to plenty.         *)
EXTENDS Processes

CONSTANTS UsableSizes, ReclaimableSize

Stack == <<<<255, 511, 511, 509>>, <<255, 511, 511, 510>>>>

Descriptor(role, required, identity, segment) ==
    [role |-> role, required |-> required, identity |-> identity, valid |-> TRUE,
     well_formed |-> TRUE, entry |-> segment[1],
     segments |-> <<[pages |-> segment, execute |-> TRUE]>>]

Shell == Descriptor("SHELL", TRUE, 1, <<<<2, 0, 0, 511>>, <<2, 0, 1, 0>>>>)
Desktop(required) == Descriptor("GUI_DESKTOP", required, 2, <<<<2, 0, 0, 0>>>>)
Viewer == Descriptor("APPLICATION", FALSE, 3,
                     <<<<255, 511, 511, 508>>, <<255, 511, 511, 509>>>>)
Upward == Descriptor("APPLICATION", FALSE, 4,
                     <<<<255, 511, 511, 510>>, <<255, 511, 511, 511>>>>)

Tables ==
    {<<Desktop(FALSE), Shell>>, <<Upward, Shell>>, <<Viewer, Shell, Desktop(TRUE)>>,
     <<[Viewer EXCEPT !.valid = FALSE], [Desktop(TRUE) EXCEPT !.well_formed = FALSE], Shell>>,
     <<[Upward EXCEPT !.segments = @ \o @], Shell>>,
     <<Shell, [Viewer EXCEPT !.identity = 1]>>, <<Desktop(TRUE)>>}

(* Reserved, usable with a reservation inside, reclaimable: in this order. *)
FirmwareMaps ==
    {[regions |-> <<[base |-> 0, page_count |-> 2, kind |-> "RESERVED"],
                    [base |-> 2, page_count |-> n, kind |-> "USABLE"],
                    [base |-> 2 + n, page_count |-> ReclaimableSize, kind |-> "RECLAIMABLE"]>>,
      reservations |-> {4}] : n \in UsableSizes}
=============================================================================
