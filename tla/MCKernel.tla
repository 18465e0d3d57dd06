------------------------------ MODULE MCKernel -------------------------------
(* The kernel with the workload it ships with.                                *)
EXTENDS Kernel, Workload

MCQuantum == [l \in 0..2 |-> <<2, 4, 8>>[l + 1]]

\* The program as it is, for every command line without --interactive.
ShippedBursts == {drone_bursts}
ShippedConfigs == {c \in CommandLines({30}) : ~ c.interactive}

\* The crash at other ticks, at the prompt or not, and shorter bursts with which
\* every process can come to its end.
ExploredConfigs ==
    {c \in CommandLines({5, 9} \cup 11..18 \cup {24, 30}) :
        c.crash /\ (c.interactive => c.crash_tick = 5)}
ExploredBursts ==
    {ThreadBursts(b, 3) : b \in {<<20, 12, 8, 5>>, <<9, 25, 3, 4>>, <<12, 9, 2, 1>>}}

\* The prompt finds nothing, or two ticks that the first run of --compare had left
\* when it came to max_ticks or to the end of its last process.
TypedLines == {C!Line("run_n", 0), C!Line("run_n", 1), C!Line("run_n", 3), C!Step,
               C!Line("run", 0), C!Line("pause", 0), C!Line("status", 0)}
LeftOvers == {0, 2}
\* "Real Metrics from --compare --ticks 100" (docs/report.md:269-283): a run of 100
\* ticks leaves behind what the program prints at its end, with the two flags that
\* change the run as well.  The report has the first two lines.
Metrics(terminated, total_wait, max_wait, total_turnaround, max_turnaround) ==
    [terminated |-> terminated, total_wait |-> total_wait, max_wait |-> max_wait,
     total_turnaround |-> total_turnaround, max_turnaround |-> max_turnaround]
Printed(mode, deadlock, crash) ==
    CASE <<mode, deadlock, crash>> = <<"RR",   FALSE, FALSE>> -> Metrics(1, 241, 63,  89, 89)
      [] <<mode, deadlock, crash>> = <<"MLFQ", FALSE, FALSE>> -> Metrics(2, 276, 72, 179, 90)
      [] <<mode, deadlock, crash>> = <<"RR",   TRUE,  FALSE>> -> Metrics(2, 180, 57, 135, 89)
      [] <<mode, deadlock, crash>> = <<"MLFQ", TRUE,  FALSE>> -> Metrics(2, 172, 55, 141, 87)
      [] <<mode, deadlock, crash>> = <<"RR",   FALSE, TRUE>>  -> Metrics(2, 161, 50, 101, 71)
      [] <<mode, deadlock, crash>> = <<"MLFQ", FALSE, TRUE>>  -> Metrics(2, 221, 71, 173, 87)
      [] <<mode, deadlock, crash>> = <<"RR",   TRUE,  TRUE>>  -> Metrics(2, 140, 41, 115, 85)
      [] <<mode, deadlock, crash>> = <<"MLFQ", TRUE,  TRUE>>  -> Metrics(3, 157, 56, 198, 86)
ReportIsReproduced ==
    tick = 100 /\ step = "start" =>
        kernel_get_metrics = Printed(config.mode, config.deadlock, config.crash)
=============================================================================
