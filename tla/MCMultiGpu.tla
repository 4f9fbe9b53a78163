------------------------------ MODULE MCMultiGpu ------------------------------
(* Instances of pollers, pool and barrier for TLC: three GPUs. *)
EXTENDS MultiGpu

Machine(nodes, cores, sysfs, stray) ==
  [nodes |-> nodes, cores |-> cores, sysfs |-> [g \in Gpus |-> sysfs[g + 1]],
   stray |-> stray]

Kinds(k) == [g \in Gpus |-> k[g + 1]]

\* Nodes known to sysfs, and unknown (-1) on machines of two nodes and of one.
TwoNodes  == Machine(2, 6, <<0, 1, 0>>, 0)
Heuristic == Machine(2, 32, <<-1, -1, -1>>, 0)
OneNode(stray) == Machine(1, 32, <<-1, -1, -1>>, stray)

MCPrograms ==
  {[kind |-> Kinds(<<k, k, k>>), machine |-> TwoNodes] : k \in {"bench", "direct"}}
  \cup {[kind |-> Kinds(<<"topology", "topology", "topology">>), machine |-> m] :
          m \in {TwoNodes, Heuristic, OneNode(0), OneNode(5)}}
  \cup {[kind |-> Kinds(k), machine |-> TwoNodes] :
          k \in {<<"single", "none", "none">>, <<"tiled", "sg", "none">>,
                 <<"sg", "sg", "none">>}}

Config(tile, chunk, size) ==
  [total_tokens |-> 1024, token_size |-> size, tokens_per_tile |-> tile,
   tokens_per_chunk |-> chunk, per_tile_mode |-> FALSE, double_buffer |-> TRUE]

\* Tuned for large and for small tokens, given, and two that are rejected.
MCConfigs == {Config(64, 0, 128 * KB), Config(256, 0, 256), Config(64, 16, 4 * KB),
              Config(100, 0, 4 * KB), Config(64, 0, 0)}

\* All huge pages, none, one of each, the second fails, both fail.
MCAllocations == {<<TRUE, TRUE>>, <<FALSE, FALSE>>, <<TRUE, FALSE>>, <<TRUE>>, <<>>}

MCPhases == <<2, 3>>
=============================================================================
