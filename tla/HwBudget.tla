------------------------------ MODULE HwBudget ------------------------------
(* The parallel-build budget of src/ss_kit/hw.py: one process reads the host  *)
(* memory, finds its cgroup, reads the limit, the usage and the CPU quota one *)
(* file after the other, while the machine goes on changing them, and then    *)
(* divides.  Memory is counted in whole units; a file that cannot be read, or *)
(* says "max", is None.                                                       *)
EXTENDS Integers

CONSTANTS None,
          Totals, Sizes,          \* host totals; available memory, limits, usage
          Cores,                  \* CPUs the affinity mask or a quota may allow
          RamPerJob,
          ReserveNum, ReserveDen, \* the fraction of the total that stays free
          FallbackTotal, FallbackAvailable,
          MaxChanges              \* bound on the changes while the budget is computed
ASSUME BudgetAssumption ==
    /\ Totals \subseteq Nat /\ Sizes \subseteq Nat /\ Cores \subseteq Nat
    /\ None \notin Nat
    /\ RamPerJob \in Nat \ {0} /\ ReserveNum \in Nat /\ ReserveDen \in Nat \ {0}
    /\ FallbackTotal \in Nat /\ FallbackAvailable \in 0..FallbackTotal

Dirs == {"root", "own"}
Limits == Sizes \union {None}

VARIABLES meminfo,   \* [total, avail], avail \in 0..total, or None
          cgroup,    \* is the process in a v2 group of its own; limit, usage, quota by directory; v1 limit
          affinity,  \* CPUs the process may run on
          pc, host, dir, limit, memory, cores, jobs, changes
budgetVars == <<meminfo, cgroup, affinity, pc, host, dir, limit, memory, cores, jobs, changes>>
machine == <<meminfo, cgroup, affinity>>

MemInfos == {m \in [total : Totals, avail : Sizes] : m.avail <= m.total}
Cgroups == [own : BOOLEAN, limit : [Dirs -> Limits], v1 : Limits, usage : Sizes, quota : [Dirs -> Cores \union {None}]]

Min2(a, b) == IF a <= b THEN a ELSE b
Max2(a, b) == IF a >= b THEN a ELSE b

BudgetInit ==
    /\ meminfo \in MemInfos \union {None} /\ cgroup \in Cgroups /\ affinity \in Cores
    /\ pc = "meminfo" /\ host = None /\ dir = "root" /\ limit = None
    /\ memory = None /\ cores = None /\ jobs = None /\ changes = 0

\* What else runs on the machine, and who administers it.
Change ==
    /\ pc # "done" /\ changes < MaxChanges /\ changes' = changes + 1
    /\ \/ meminfo # None /\ \E a \in Sizes : a <= meminfo.total /\ meminfo' = [meminfo EXCEPT !.avail = a]
          /\ UNCHANGED cgroup
       \/ \E u \in Sizes : cgroup' = [cgroup EXCEPT !.usage = u] /\ UNCHANGED meminfo
       \/ \E d \in Dirs, l \in Limits : cgroup' = [cgroup EXCEPT !.limit[d] = l] /\ UNCHANGED meminfo
    /\ UNCHANGED <<affinity, pc, host, dir, limit, memory, cores, jobs>>

ReadMeminfo ==
    /\ pc = "meminfo" /\ pc' = "group"
    /\ host' = IF meminfo = None THEN [total |-> FallbackTotal, avail |-> FallbackAvailable] ELSE meminfo
    /\ UNCHANGED <<machine, dir, limit, memory, cores, jobs, changes>>

OwnDir == IF cgroup.own THEN "own" ELSE "root"
FindGroup ==
    /\ pc = "group" /\ pc' = "limit"
    /\ dir' = OwnDir
    /\ UNCHANGED <<machine, host, limit, memory, cores, jobs, changes>>

\* v2, then v1, which has its files under the root only.
LimitOf(d) == IF cgroup.limit[d] # None THEN cgroup.limit[d] ELSE IF d = "root" THEN cgroup.v1 ELSE None
ReadLimit ==
    /\ pc = "limit" /\ pc' = "usage"
    /\ limit' = LimitOf(dir)
    /\ UNCHANGED <<machine, host, dir, memory, cores, jobs, changes>>

\* Mutant: the headroom is not capped by what the host has left.
CappedByGroup(h, lim, usage) ==
    IF lim = None \/ lim >= h.total THEN h ELSE [total |-> lim, avail |-> Max2(0, lim - usage)]
Capped(h, lim, usage) ==
    IF lim = None \/ lim >= h.total THEN h
    ELSE [total |-> lim, avail |-> Min2(h.avail, Max2(0, lim - usage))]
ReadUsage ==
    /\ pc = "usage" /\ pc' = "cpus"
    /\ memory' = Capped(host, limit, cgroup.usage)
    /\ UNCHANGED <<machine, host, dir, limit, cores, jobs, changes>>

ReadCpus ==
    /\ pc = "cpus" /\ pc' = "divide"
    /\ LET quota == cgroup.quota[OwnDir]
       IN  cores' = IF quota = None THEN affinity ELSE Min2(affinity, Max2(1, quota))
    /\ UNCHANGED <<machine, host, dir, limit, memory, jobs, changes>>

(* build_budget, in parts of ReserveDen.  A remainder of 0.8 of a job or more *)
(* counts as a job.  The code computes with floats: their error is far below  *)
(* one part, and moves the result only when the remainder is 0.8 of a job to  *)
(* the last part.  There it falls on either side: with 12 of 24 GiB available *)
(* and 0.2 in reserve, 1.8 jobs of 4 GiB become one, and with 7 of 8, 1.8     *)
(* jobs of 3 GiB become two.                                                  *)
Usable(total, avail) == Max2(0, avail * ReserveDen - total * ReserveNum)
Part == RamPerJob * ReserveDen
\* Mutant: the remainder is cut off.
MemJobsCut(total, avail) == {Usable(total, avail) \div Part}
MemJobs(total, avail) ==
    LET q == Usable(total, avail) \div Part
        r == Usable(total, avail) % Part
    IN  (IF 5 * r <= 4 * Part THEN {q} ELSE {}) \union (IF 5 * r >= 4 * Part THEN {q + 1} ELSE {})
CpuJobs(cpus) == Max2(1, (cpus - 2) \div 2)
Divide ==
    /\ pc = "divide" /\ pc' = "done"
    /\ \E m \in MemJobs(memory.total, memory.avail) : jobs' = Max2(1, Min2(m, CpuJobs(cores)))
    /\ UNCHANGED <<machine, host, dir, limit, memory, cores, changes>>

BudgetNext == Change \/ ReadMeminfo \/ FindGroup \/ ReadLimit \/ ReadUsage \/ ReadCpus \/ Divide
BudgetSpec == BudgetInit /\ [][BudgetNext]_budgetVars
-----------------------------------------------------------------------------
(* Whatever changes between the reads, the budget never exceeds what it is    *)
(* made of: more than one job means that all but 0.2 of one job fits above    *)
(* the reserve, within the host's total and the limit that was read, and the  *)
(* CPUs carry two cores a job besides the two that stay free (hw.py:144-159). *)
BudgetFits ==
    pc = "done" =>
        /\ jobs >= 1
        /\ memory.avail <= Min2(host.avail, memory.total)
        /\ jobs > 1 => /\ (5 * jobs - 1) * Part <= 5 * Usable(memory.total, memory.avail)
                       /\ (5 * jobs - 1) * RamPerJob <= 5 * memory.total
                       /\ 2 * jobs + 2 <= cores

(* And it is the largest such number, to the last part: beyond it not more    *)
(* than 0.8 of a job fits in memory, or one more job not on the CPUs          *)
(* (hw.py:156-158).  hw.py:17 promises less than 0.8: a remainder that is     *)
(* exactly the share may be cut off all the same, see MemJobs.                *)
BudgetIsLargest ==
    pc = "done" =>
        \/ 5 * Usable(memory.total, memory.avail) <= (5 * jobs + 4) * Part
        \/ cores < 2 * (jobs + 1) + 2
=============================================================================
