------------------------------- MODULE Topology -------------------------------
(***************************************************************************)
(* Which CPUs the threads of a GPU's poller are pinned to: the cores that  *)
(* pcie_topology.h finds for each GPU, or the examples' own table, and the *)
(* pinning of the polling thread and the gather workers in                 *)
(* cpu_polling.cpp.  Pure operators.  A machine is [nodes, cores, sysfs,   *)
(* stray]: its NUMA nodes, physical cores per node, what sysfs says of     *)
(* each GPU's node, and what the word past gpus_per_numa holds.            *)
(***************************************************************************)
EXTENDS Integers, FiniteSets, FiniteSetsExt, Sequences

CONSTANTS NumGpus,             \* num_gpus
          MAX_GATHER_WORKERS

ASSUME TopologyAssumption == /\ NumGpus \in Nat \ {0}
                             /\ MAX_GATHER_WORKERS \in Nat \ {0}

Gpus == 0..(NumGpus - 1)

-----------------------------------------------------------------------------
(* discover_topology and get_exclusive_cores *)

\* sysfs, or half of the GPUs on each of two nodes, were there one or more.
NumaNode(m, g) == IF m.sysfs[g] \in 0..(m.nodes - 1) THEN m.sysfs[g]
                  ELSE IF NumGpus > 1 /\ g >= NumGpus \div 2 THEN 1 ELSE 0

GpusOnNode(m, n) == {g \in Gpus : NumaNode(m, g) = n}

\* gpus_per_numa[n]; the vector has an element for each of the machine's nodes,
\* and the index is not checked.
GpusPerNuma(m, n) ==
  Cardinality(GpusOnNode(m, n)) + (IF n < m.nodes THEN 0 ELSE m.stray)

CpuStart(m, g) == NumaNode(m, g) * m.cores
CpuEnd(m, g)   == (NumaNode(m, g) + 1) * m.cores - 1

\* Mutant: the GPU's number instead of its rank on its node.
RankIsGpu(m, g) == g

\* intra_numa_idx
Rank(m, g) == Cardinality({h \in GpusOnNode(m, NumaNode(m, g)) : h < g})

\* cores_per_gpu, out_base_cpu and out_num_cores.
Share(m, g)    == m.cores \div GpusPerNuma(m, NumaNode(m, g))
BaseCpu(m, g)  == CpuStart(m, g) + Rank(m, g) * Share(m, g)
NumCores(m, g) == IF BaseCpu(m, g) + Share(m, g) - 1 > CpuEnd(m, g)
                    THEN CpuEnd(m, g) - BaseCpu(m, g) + 1 ELSE Share(m, g)

-----------------------------------------------------------------------------
(* The table gpu_configs of examples 05, 06 and 08 *)

CORE_COUNT  == 16
CoreBase(g) == g * CORE_COUNT

\* Where the thread that drives the GPU's tests pins itself.
ControlCpu(g) == CoreBase(g) + CORE_COUNT - 1

-----------------------------------------------------------------------------
(* init_copy_engine and start *)

\* core_stride of a poller with cores of its own: from 16 on, every second.
CoreStride(cores) == IF cores >= 16 THEN 2 ELSE 1

\* active_gather_workers_, from available_slots.
Workers(slots) == Min({MAX_GATHER_WORKERS, Max({1, slots - 1})})

\* The polling thread on the base CPU, then the workers (get_worker_cpu).
Pinned(base, cores, stride) ==
  [i \in 1..(Workers(cores \div stride) + 1) |-> base + (i - 1) * stride]

\* Without cores of its own, by numa_node_; core_offset_ is 0 by default.
DefaultCpus(node) == Pinned(node * 64, 8, 2)

\* exclusive_core_base_ and exclusive_core_count_ as the program sets them; a
\* count of zero moves the workers, not the polling thread, to the default.
ExclusiveCpus(node, base, cores) ==
  IF cores > 0 THEN Pinned(base, cores, CoreStride(cores))
               ELSE <<base>> \o Tail(DefaultCpus(node))
=============================================================================
