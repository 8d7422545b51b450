----------------------------- MODULE MCCronLoop -----------------------------
(* A small instance of CronLoop: two processes, two tasks of the file and one *)
(* worker, in one lane; in one of the processes a user asks for one of them.  *)
EXTENDS CronLoop

CONSTANTS p1, p2, daily, backup, main, w1

MCTaskLane == [x \in Tasks |-> main]
MCAsked == {<<p1, backup>>}
MCWorkerLane == [w \in Workers |-> main]
=============================================================================
