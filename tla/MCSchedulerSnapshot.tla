------------------------ MODULE MCSchedulerSnapshot ------------------------
(* SchedulerSnapshot on small instances. *)
EXTENDS SchedulerSnapshot

CONSTANTS p1, p2, r1, q1, w1, w2

Load(procs, writers, most, failures) ==
    [procs |-> procs, writers |-> writers, changes |-> most, faults |-> failures]

\* A rebuild against a poller that may fail; two pollers; two writers; a request.
Mixed == {Load({p1, r1}, {w1}, 2, 1),
          Load({p1, p2, r1}, {w1}, 1, 0),
          Load({p1, r1}, {w1, w2}, 2, 0),
          Load({p1, r1, q1}, {w1}, 1, 1)}
=============================================================================
