------------------------------- MODULE MCIpc -------------------------------
(* Two processes, two endpoints, two handles each and one service.           *)
EXTENDS Ipc, TLC

Alike == Permutations(Process)
SendOnly == {{"signal"}}
=============================================================================
