------------------------------ MODULE Workload -------------------------------
(* What FleetOS runs: the four processes of drone.c, with the worker that     *)
(* kernel_init gives each of them, and the command lines main.c takes.        *)
EXTENDS Integers, Sequences

flight_cmds == <<"COMPUTE", "PRODUCE_DATA", "ACQUIRE_RESOURCE">>
battery_cmds == <<"COMPUTE", "ACQUIRE_RESOURCE", "IO_WRITE">>
mapping_cmds == <<"COMPUTE", "CONSUME_DATA", "IO_WRITE">>
log_cmds == <<"CONSUME_DATA", "IO_WRITE">>
worker_cmds == <<"COMPUTE", "COMPUTE">>

\* One record per process: Flight, Battery, Mapping, LogCollector.
Drones == <<
    [cmds |-> flight_cmds,  priority |-> "HIGH",     burst |-> 20],
    [cmds |-> battery_cmds, priority |-> "CRITICAL", burst |-> 25],
    [cmds |-> mapping_cmds, priority |-> "NORMAL",   burst |-> 15],
    [cmds |-> log_cmds,     priority |-> "LOW",      burst |-> 10] >>

drone_priority == [p \in 0..3 |-> Drones[p + 1].priority]
drone_get_arrival_time == [p \in 0..3 |-> <<0, 0, 2, 4>>[p + 1]]

\* The threads of kernel_init, for any bursts of the four main threads and of
\* their workers: the main thread of process p has the tid 2p, its worker 2p + 1.
drone_commands == [t \in 0..7 |-> IF t % 2 = 0 THEN Drones[t \div 2 + 1].cmds ELSE worker_cmds]
ThreadBursts(main, worker) == [t \in 0..7 |-> IF t % 2 = 0 THEN main[t \div 2 + 1] ELSE worker]
drone_bursts == ThreadBursts([i \in 1..4 |-> Drones[i].burst], 10)

\* The flags of main.c in any combination; --compare runs the two modes of one
\* of them, each from kernel_init.  The tick of the crash is 30 in kernel.c.
CommandLines(crash_ticks) ==
    [mode : {"RR", "MLFQ"}, deadlock : BOOLEAN, crash : BOOLEAN, interactive : BOOLEAN,
     crash_tick : crash_ticks]
=============================================================================
