---------------------------- MODULE StatsTracker ----------------------------
(***************************************************************************)
(* The scheduler's statistics tracker: the thread that launch_stats_tracker*)
(* starts, scheduler_stats_tracker::tick, and what wait_for_all_tasks,     *)
(* start, abort and set_stats_tracker do with both.                        *)
(*                                                                         *)
(* Of the jobs only their number counts: module Scheduler shows when it is *)
(* complete.  A tick is two steps, so that two of them could overlap.  The *)
(* tracker has a callback; what it shows its user is a history variable.   *)
(***************************************************************************)
EXTENDS Integers

CONSTANTS Jobs,     \* jobs of one execution
          MaxRuns    \* bound: executions

JobsOK == Jobs \in Nat

ASSUME TrackParameters == JobsOK

VARIABLES
  stats,       \* stats_: jobs done
  poolStop,    \* the pool's stop_source_
  runs,        \* executions started
  master,      \* where the master thread is
  final,       \* prev_stats of wait_for_all_tasks
  thread,      \* where stats_tracker_thread_ is; "none": not joinable
  threadStop,  \* its stop_source
  copy,        \* its copy of stats_
  failed,      \* stats_tracker_exception_ holds an exception
  prev,        \* the tracker's prev_stats_
  shown,       \* history: what the callback last showed of this execution
  again        \* history: the tracker was there in an execution before

trackerThread == <<thread, threadStop, copy>>
tracker == <<prev, shown, again>>
trackVars == <<stats, poolStop, runs, master, final, trackerThread, failed, tracker>>

\* The callback has shown no numbers yet.
Nothing == -1

TrackInit ==
  /\ stats = 0 /\ poolStop = FALSE /\ runs = 0
  /\ master = "idle" /\ final = 0
  /\ thread = "none" /\ threadStop = FALSE /\ copy = 0
  /\ failed = FALSE /\ prev = 0 /\ shown = Nothing /\ again = FALSE

-----------------------------------------------------------------------------
(* tick(): between its two steps the callback runs, if the numbers differ  *)
(* from those of the tick before, which may be one of an execution before. *)

Shows(s) == s # prev

TickEnds(s) ==
  /\ prev' = s /\ UNCHANGED again
  /\ \/ Shows(s) /\ shown' = s
     \/ ~Shows(s) /\ UNCHANGED shown

TickThrows(s) == Shows(s) /\ UNCHANGED tracker

-----------------------------------------------------------------------------
(* Jobs: workers report even after a stop, from the call they are in.      *)

Report ==
  /\ runs > 0 /\ stats < Jobs /\ master # "finished"
  /\ stats' = stats + 1
  /\ UNCHANGED <<poolStop, runs, master, final, trackerThread, failed, tracker>>

WorkerThrows ==
  /\ runs > 0 /\ ~poolStop /\ master # "finished"
  /\ poolStop' = TRUE
  /\ UNCHANGED <<stats, runs, master, final, trackerThread, failed, tracker>>

-----------------------------------------------------------------------------
(* The tracker thread *)

LookAtPool ==
  /\ thread = "loop"
  /\ thread' = IF poolStop THEN "exited" ELSE "wait"
  /\ UNCHANGED <<stats, poolStop, runs, master, final, threadStop, copy, failed, tracker>>

\* wait_for() ends when the interval has elapsed or a stop was requested of
\* the thread; the copy is made before stats_mtx_ is released.
Copy ==
  /\ thread = "wait"
  /\ copy' = stats
  /\ thread' \in {"copied"} \union (IF threadStop THEN {"exited"} ELSE {})
  /\ UNCHANGED <<stats, poolStop, runs, master, final, threadStop, failed, tracker>>

\* Mutant of Check: after the wait the stop is not looked at.
Check_Never ==
  /\ thread = "copied" /\ thread' = "tick"
  /\ UNCHANGED <<stats, poolStop, runs, master, final, threadStop, copy, failed, tracker>>

Check ==
  /\ thread = "copied"
  /\ thread' = IF threadStop THEN "exited" ELSE "tick"
  /\ UNCHANGED <<stats, poolStop, runs, master, final, threadStop, copy, failed, tracker>>

Tick ==
  /\ thread = "tick"
  /\ TickEnds(copy) /\ thread' = "loop"
  /\ UNCHANGED <<stats, poolStop, runs, master, final, threadStop, copy, failed>>

TickFails ==
  /\ thread = "tick"
  /\ TickThrows(copy) /\ thread' = "exited" /\ failed' = TRUE
  /\ UNCHANGED <<stats, poolStop, runs, master, final, threadStop, copy>>

ThreadStep == LookAtPool \/ Copy \/ Check \/ Tick

-----------------------------------------------------------------------------
(* The master thread *)

Joined == thread \in {"none", "exited"}

\* start() keeps a thread that is joinable, even one that has exited.
Start ==
  /\ master = "idle" /\ runs < MaxRuns /\ stats < Jobs
  /\ master' = "started" /\ runs' = runs + 1
  /\ IF thread = "none" THEN thread' = "loop" /\ threadStop' = FALSE
                        ELSE UNCHANGED <<thread, threadStop>>
  /\ UNCHANGED <<stats, poolStop, final, copy, failed, tracker>>

\* launch_stats_tracker(), called by the user: the thread before is stopped
\* and joined, one step each.
Relaunch ==
  /\ master = "idle" /\ threadStop' = TRUE /\ master' = "relaunch"
  /\ UNCHANGED <<stats, poolStop, runs, final, thread, copy, failed, tracker>>

Launched ==
  /\ master = "relaunch" /\ Joined
  /\ master' = "idle" /\ thread' = "loop" /\ threadStop' = FALSE
  /\ UNCHANGED <<stats, poolStop, runs, final, copy, failed, tracker>>

\* set_stats_tracker(): another tracker, without its thread.  An exception of
\* the old one stays.
SetTracker ==
  /\ master = "idle" /\ threadStop' = TRUE /\ master' = "replace"
  /\ UNCHANGED <<stats, poolStop, runs, final, thread, copy, failed, tracker>>

TrackerSet ==
  /\ master = "replace" /\ Joined
  /\ master' = "idle" /\ thread' = "none"
  /\ prev' = 0 /\ shown' = Nothing /\ again' = FALSE
  /\ UNCHANGED <<stats, poolStop, runs, final, threadStop, copy, failed>>

HaltTracker ==
  /\ master \in {"idle", "started"}
  /\ threadStop' = TRUE
  /\ UNCHANGED <<stats, poolStop, runs, master, final, thread, copy, failed, tracker>>

\* wait_for_all_tasks(): the numbers are read under stats_mtx_ when the wait
\* ends, and the tracker thread is told to stop only after that.
Awake ==
  /\ master = "started"
  /\ stats = Jobs \/ poolStop
  /\ final' = stats /\ master' = "woken"
  /\ UNCHANGED <<stats, poolStop, runs, trackerThread, failed, tracker>>

StopThread ==
  /\ master = "woken"
  /\ threadStop' = TRUE /\ master' = "join"
  /\ UNCHANGED <<stats, poolStop, runs, final, thread, copy, failed, tracker>>

\* Mutant of JoinThread: the thread is told to stop, not waited for.
JoinThread_Detached ==
  /\ master = "join" /\ failed' = FALSE
  /\ master' = IF failed THEN "threw" ELSE "tick"
  /\ UNCHANGED <<stats, poolStop, runs, final, trackerThread, tracker>>

\* The thread's exception is thrown, and then nothing else is done: there is
\* no last tick, and after a stop neither is the queue closed nor are the
\* workers' exceptions rethrown.
JoinThread ==
  /\ master = "join" /\ Joined
  /\ thread' = "none" /\ failed' = FALSE
  /\ master' = IF failed THEN "threw" ELSE "tick"
  /\ UNCHANGED <<stats, poolStop, runs, final, threadStop, copy, tracker>>

AfterTick == IF poolStop THEN "stopped" ELSE "returned"

\* Mutant of LastTick: it waits for its interval like the others.
LastTick_Skipped ==
  /\ master = "tick" /\ master' = AfterTick
  /\ TickEnds(final) \/ UNCHANGED tracker
  /\ UNCHANGED <<stats, poolStop, runs, final, trackerThread, failed>>

\* "always print tick at the end", but through tick(), which shows no numbers
\* twice.
LastTick ==
  /\ master = "tick"
  /\ TickEnds(final) /\ master' = AfterTick
  /\ UNCHANGED <<stats, poolStop, runs, final, trackerThread, failed>>

LastTickFails ==
  /\ master = "tick"
  /\ TickThrows(final) /\ master' = "threw"
  /\ UNCHANGED <<stats, poolStop, runs, final, trackerThread, failed>>

\* reset_same_inputs_for_next_execution() after a wait that returned: stats_
\* begins again, the tracker's prev_stats_ does not.
Reset ==
  /\ master = "returned"
  /\ master' = "idle" /\ stats' = 0 /\ shown' = Nothing /\ again' = TRUE
  /\ UNCHANGED <<poolStop, runs, final, trackerThread, failed, prev>>

\* abort(), the destructor's too: the workers first, then the thread.
Abort ==
  /\ master \in {"idle", "started", "returned", "stopped", "threw"}
  /\ poolStop' = TRUE /\ threadStop' = TRUE /\ master' = "abort"
  /\ UNCHANGED <<stats, runs, final, thread, copy, failed, tracker>>

Aborted ==
  /\ master = "abort" /\ Joined
  /\ thread' = "none" /\ master' = "finished"
  /\ UNCHANGED <<stats, poolStop, runs, final, threadStop, copy, failed, tracker>>

MasterGoesOn == Awake \/ StopThread \/ JoinThread \/ LastTick \/ Launched \/ TrackerSet \/ Aborted
MasterCalls  == Start \/ Relaunch \/ SetTracker \/ HaltTracker \/ Reset \/ Abort

TrackNext == \/ Report \/ WorkerThrows
        \/ ThreadStep \/ TickFails
        \/ MasterGoesOn \/ LastTickFails \/ MasterCalls

\* Jobs get done, a callback returns or throws, and so every thread goes on.
TrackFairness ==
  /\ WF_trackVars(Report)
  /\ WF_trackVars(ThreadStep)
  /\ WF_trackVars(MasterGoesOn)

TrackSpec == TrackInit /\ [][TrackNext]_trackVars /\ TrackFairness

-----------------------------------------------------------------------------
\* When wait_for_all_tasks() returns from an execution that was not stopped,
\* the complete numbers are the last the callback has shown of it, and no other
\* tick is under way or can follow: the tracker thread is gone.  The code says
\* "always print tick at the end" and keeps that with one exception: a tracker
\* that was there in an execution before may show nothing at all of this one,
\* because prev_stats_ still has the same numbers from the end of the other.
\* No two threads ever tick.
LastTickFinal ==
  /\ ~(thread = "tick" /\ master = "tick")
  /\ master = "returned" =>
       Joined /\ (shown = Jobs \/ (shown = Nothing /\ again))

\* The numbers that are shown of an execution go forward, so that no rate
\* between two of them is negative.  Not so after a stop: the thread may show
\* a report that came after the master's last look, and then the last tick
\* shows less.
TicksForward == [][shown' < shown => shown' = Nothing \/ poolStop]_trackVars

\* wait_for_all_tasks() comes back, whenever the tracker thread was between
\* its looks at the two stops, and however its callback ended.
TrackedWaitReturns ==
  master = "started" ~> master \in {"threw", "stopped", "returned", "finished"}
=============================================================================
