------------------------------ MODULE Tracing ------------------------------
(***************************************************************************)
(* `ql learn` and `ql run --observe` watching an agent under ptrace        *)
(* (crates/ql-learn/src/trace.rs, observation.rs). The agent's tasks run   *)
(* concurrently and stop at the entry and at the exit of every system      *)
(* call; the tracer handles one stop at a time, and knows whether a stop is*)
(* an entry or an exit only by having counted the task's stops.            *)
(***************************************************************************)
EXTENDS Naturals, Sequences, FiniteSets, Functions

CONSTANTS Tasks,            \* thread ids
          Root,             \* the agent's first task
          Calls,            \* system calls the agent makes: [nr, ...]; of an exec the
                            \* path and what the tracer reads of it, None if nothing
          Binary,           \* [path -> the file there, or Missing]
          Missing,
          Absolute,         \* the paths that start with a slash
          Interpreter,      \* [script -> the file that runs it]
          Where,            \* [file -> its absolute path]
          Commands,         \* paths the agent may be started as
          MaxCalls          \* bound on the system calls of one run

None == "none"

VARIABLES group,            \* the kernel: each task's process, None when gone
          stop,             \* "none", "born", "run", "entry", "kernel", "exit", "gone"
          call,             \* the call a task is in: [what, done]
          running,            \* the file each process runs
          parent, born,     \* its parent; its fork: [at |-> Len(events), running]
          calls,            \* calls made so far
          atEntry,          \* the tracer: at_entry, whether the next stop is an entry
          events,           \* exec_events and connect_events, in seq order
          reads, writes,    \* paths opened: [place, shown]
          syscalls,         \* numbers seen
          ended,            \* supervise() has returned
          ran, places, used,\* what happened: files run, places opened, other calls
          plain             \* every exec so far was one a tracer can tell (Enter)

kernel == <<group, stop, call, running, parent, born, calls>>
observation == <<events, reads, writes, syscalls>>
happened == <<ran, places, used, plain>>
traceVars == <<kernel, atEntry, observation, ended, happened>>

Alive == {t \in Tasks : group[t] # None}
Threads(t) == {u \in Alive : group[u] = group[t]}

\* A script runs its interpreter; the exec wall is asked about both.
Runs(file) == IF file \in DOMAIN Interpreter THEN Interpreter[file] ELSE file
Chain(file) == {file, Runs(file)}
Simple(path) == path \in Absolute /\ Binary[path] \notin DOMAIN Interpreter

ASSUME TracingAssumption ==
  /\ Root \in Tasks /\ None \notin Tasks \cup Absolute
  /\ \A path \in Commands :
       LET file == Runs(Binary[path])
       IN  Where[file] \in Absolute /\ Binary[Where[file]] = file

(* The observation ********************************************************)

\* An event is numbered as it is seen (next_seq).
Exec(pid, ppid, path) == [kind |-> "exec", pid |-> pid, ppid |-> ppid, path |-> path,
                          seq |-> Len(events) + 1, failed |-> FALSE,
                          truth |-> born[pid].running, forked |-> born[pid].at]
Connect(pid, ppid) == [kind |-> "connect", pid |-> pid, ppid |-> ppid, path |-> None,
                       seq |-> Len(events) + 1, failed |-> FALSE,
                       truth |-> running[pid], forked |-> born[pid].at]

\* The parent as /proc shows it: an orphan's is none of the run's.
Ppid(t) == LET p == parent[group[t]]
           IN  IF p # None /\ group[p] = None THEN None ELSE p

\* record_open: a path opened for writing is kept only in `writes`.
RecordOpen(c) ==
    LET path == [place |-> c.place, shown |-> c.shown]
    IN  IF c.write
        THEN reads' = reads \ {path} /\ writes' = writes \cup {path}
        ELSE /\ reads' = IF path \in writes THEN reads ELSE reads \cup {path}
             /\ UNCHANGED writes

\* read_regs: the call's number and arguments, and a result that is negative for a
\* failed call, and at every entry (-ENOSYS).
Regs(t) == [what |-> call[t].what, negative |-> ~call[t].done]

\* decode_entry: the arguments of an exec that succeeded are gone from memory, and
\* only its number is recorded. So it is for one whose path read_cstr cannot read, or
\* that names the file by a descriptor and has an empty path.
Decode(t) ==
    LET c == Regs(t).what
    IN  /\ syscalls' = syscalls \cup {c.nr}
        /\ IF c.nr = "openat" THEN RecordOpen(c) ELSE UNCHANGED <<reads, writes>>
        /\ events' =
             CASE c.nr = "execve" /\ ~call[t].done /\ c.read # None ->
                    Append(events, Exec(group[t], Ppid(t), c.read))
               [] c.nr = "connect" -> Append(events, Connect(group[t], Ppid(t)))
               [] OTHER -> events

\* mark_last_exec_failed: the latest exec of the process not yet marked.
MarkAnyFailed(pid) ==
    LET marks == {i \in DOMAIN events : /\ events[i].kind = "exec" /\ pid # None
                                        /\ ~events[i].failed}
    IN  [i \in DOMAIN events |->
            [events[i] EXCEPT !.failed = @ \/ (i \in marks /\ \A j \in marks : j <= i)]]
Marks(pid) == {i \in DOMAIN events : /\ events[i].kind = "exec"
                                     /\ events[i].pid = pid /\ ~events[i].failed}
MarkFailed(pid) ==
    [i \in DOMAIN events |->
        [events[i] EXCEPT !.failed = @ \/ (i \in Marks(pid) /\ \A j \in Marks(pid) : j <= i)]]

(* The agent and the kernel ***********************************************)

\* An exec as the tracer reads it, of a file run as it is; and one of nothing that it
\* does not see.
Told(c) == c.read = c.path /\ Simple(c.path)
Vain(c) == c.read = None /\ Binary[c.path] = Missing

\* A run stays plain if a process that execs has one thread, and the tracer reads the
\* absolute path of a file that is no script; or reads nothing, of an exec that fails
\* in a process that has no other record for the failure to be marked on.
Enter(t, c) ==
    /\ ~ended /\ stop[t] = "run" /\ calls < MaxCalls
    /\ calls' = calls + 1
    /\ stop' = [stop EXCEPT ![t] = "entry"]
    /\ call' = [call EXCEPT ![t] = [what |-> c, done |-> FALSE]]
    /\ plain' = (/\ plain
                 /\ c.nr = "execve" =>
                      /\ Threads(t) = {t}
                      /\ Told(c) \/ (Vain(c) /\ Marks(group[t]) = {})
                 /\ c.nr = "openat" => c.shown)
    /\ UNCHANGED <<group, running, parent, born, atEntry, observation, ended, ran,
                   places, used>>

InKernel(t, numbers) == ~ended /\ stop[t] = "kernel" /\ call[t].what.nr \in numbers
Others == {c.nr : c \in Calls} \ {"execve", "fork", "clone"}

\* A failed exec changes nothing, and neither do the calls that only look outside.
Fails(t) == /\ InKernel(t, {"execve"})
            /\ stop' = [stop EXCEPT ![t] = "exit"]
            /\ UNCHANGED <<group, call, running, parent, born, calls, atEntry,
                           observation, ended, happened>>
Does(t) ==
    /\ InKernel(t, Others)
    /\ stop' = [stop EXCEPT ![t] = "exit"]
    /\ call' = [call EXCEPT ![t].done = TRUE]
    /\ LET c == call[t].what
       IN  /\ places' = IF c.nr = "openat" THEN places \cup {c.place} ELSE places
           /\ used' = used \cup {c.nr}
    /\ UNCHANGED <<group, running, parent, born, calls, atEntry, observation, ended,
                   ran, plain>>

\* An exec ends the process's other threads. The survivor goes on under the
\* process's own id, whichever thread it was, and its exit stop comes under it;
\* a thread that exec'd is never heard of again, not even as an exit.
Execs(t) ==
    LET pid == group[t]
        file == Binary[call[t].what.path]
    IN  /\ InKernel(t, {"execve"}) /\ file # Missing
        /\ group' = [u \in Tasks |-> IF u \in Threads(t) \ {pid} THEN None ELSE group[u]]
        /\ stop' = [u \in Tasks |-> CASE u = pid -> "exit"
                                      [] u \in Threads(t) \ {pid} -> "gone"
                                      [] OTHER -> stop[u]]
        /\ call' = [call EXCEPT ![pid] = [what |-> call[t].what, done |-> TRUE]]
        /\ running' = [running EXCEPT ![pid] = Runs(file)]
        /\ ran' = ran \cup Chain(file)
        /\ atEntry' = Restrict(atEntry, DOMAIN atEntry \ (Threads(t) \ {pid, t}))
        /\ UNCHANGED <<parent, born, calls, observation, ended, places, used, plain>>

\* A new task: a process of its own, or a thread of the caller's.
Forks(t) ==
    /\ InKernel(t, {"fork", "clone"}) /\ \E u \in Tasks : stop[u] = "none"
    /\ LET u == CHOOSE u \in Tasks : stop[u] = "none"
           pid == IF call[t].what.nr = "fork" THEN u ELSE group[t]
       IN  /\ stop' = [stop EXCEPT ![t] = "exit", ![u] = "born"]
           /\ group' = [group EXCEPT ![u] = pid]
           /\ parent' = [parent EXCEPT ![u] = group[t]]
           /\ running' = [running EXCEPT ![u] = running[group[t]]]
           /\ born' = [born EXCEPT ![u] = [at |-> Len(events), running |-> running[group[t]]]]
    /\ call' = [call EXCEPT ![t].done = TRUE]
    /\ UNCHANGED <<calls, atEntry, observation, ended, happened>>

(* The tracer *************************************************************)

\* A new task's first stop makes it known.
Meet(t) == /\ ~ended /\ stop[t] = "born"
           /\ stop' = [stop EXCEPT ![t] = "run"]
           /\ atEntry' = [u \in DOMAIN atEntry \cup {t} |-> IF u = t THEN TRUE ELSE atEntry[u]]
           /\ UNCHANGED <<group, call, running, parent, born, calls, observation, ended,
                          happened>>

\* A stop of a call: decoded when an entry is due, else taken for an exit.
Stop(t) ==
    /\ ~ended /\ stop[t] \in {"entry", "exit"}
    /\ IF atEntry[t]
       THEN Decode(t)
       ELSE /\ events' = IF Regs(t).what.nr = "execve" /\ Regs(t).negative
                         THEN MarkFailed(group[t]) ELSE events
            /\ UNCHANGED <<reads, writes, syscalls>>
    /\ atEntry' = [atEntry EXCEPT ![t] = ~atEntry[t]]
    /\ stop' = [stop EXCEPT ![t] = IF stop[t] = "entry" THEN "kernel" ELSE "run"]
    /\ UNCHANGED <<group, call, running, parent, born, calls, ended, happened>>

\* A task ends, with its process if it is the leader. supervise() returns when no
\* task it knows of is left, or none at all.
TaskExits(t) ==
    /\ ~ended /\ stop[t] = "run"
    /\ LET gone == IF t = group[t] THEN Threads(t) ELSE {t}
       IN  /\ group' = [u \in Tasks |-> IF u \in gone THEN None ELSE group[u]]
           /\ atEntry' = Restrict(atEntry, DOMAIN atEntry \ gone)
           /\ stop' = [u \in Tasks |-> IF u \in gone THEN "gone" ELSE stop[u]]
           /\ ended' = (DOMAIN atEntry' = {} \/ Alive = gone)
    /\ UNCHANGED <<call, running, parent, born, calls, observation, happened>>

\* The command runs: its own exec was consumed as the first stop, and recorded as
\* the file /proc shows, which for a script is the interpreter.
TraceInit ==
    \E path \in Commands :
       LET file == Binary[path]
       IN  /\ group = [t \in Tasks |-> IF t = Root THEN Root ELSE None]
           /\ stop = [t \in Tasks |-> IF t = Root THEN "run" ELSE "none"]
           /\ call = [t \in Tasks |-> [what |-> [nr |-> "none"], done |-> FALSE]]
           /\ running = [t \in Tasks |-> Runs(file)]
           /\ parent = [t \in Tasks |-> None]
           /\ born = [t \in Tasks |-> [at |-> 0, running |-> None]]
           /\ calls = 0 /\ ended = FALSE
           /\ atEntry = [t \in {Root} |-> TRUE]
           /\ events = <<[kind |-> "exec", pid |-> Root, ppid |-> None,
                          path |-> Where[Runs(file)], seq |-> 1, failed |-> FALSE,
                          truth |-> None, forked |-> 0]>>
           /\ reads = {} /\ writes = {} /\ syscalls = {}
           /\ ran = Chain(file) /\ places = {} /\ used = {}
           /\ plain = Simple(path)

TraceNext == \E t \in Tasks : \/ \E c \in Calls : Enter(t, c)
                              \/ Fails(t) \/ Does(t) \/ Execs(t) \/ Forks(t)
                              \/ Meet(t) \/ Stop(t) \/ TaskExits(t)
=============================================================================
