---------------------------- MODULE SessionConfig ----------------------------
(***************************************************************************)
(* WarpSpecConfig: the chunk size a warp-spec session works with and the   *)
(* configurations its constructor accepts.  Pure operators; a              *)
(* configuration is a record with the fields of the struct that matter.    *)
(***************************************************************************)
EXTENDS Integers, FiniteSetsExt

KB == 1024

ConfigShape == [total_tokens : Nat, token_size : Nat, tokens_per_tile : Nat,
                tokens_per_chunk : Nat, per_tile_mode : BOOLEAN,
                double_buffer : BOOLEAN]

\* target_chunk_bytes
TargetBytes(c) == IF c.token_size <= 512 THEN 64 * KB
                  ELSE IF c.token_size >= 64 * KB THEN 256 * KB ELSE 128 * KB

\* The loop that doubles p; bound: tiles of at most 2^16 tokens.
PowerOfTwoBelow(n) == Max({2^k : k \in {j \in 0..16 : 2^j <= n}})

\* At least 4 tokens, at most a tile.
Clipped(c) ==
  Min({Max({TargetBytes(c) \div c.token_size, 4}), c.tokens_per_tile})

\* Mutant: the limit on chunks per tile is forgotten.
AutoChunkUnlimited(c) == PowerOfTwoBelow(Clipped(c))

\* The chunk size found when the user gives none: at most 8 chunks per tile,
\* then rounded down.
AutoChunk(c) == PowerOfTwoBelow(Max({Clipped(c), c.tokens_per_tile \div 8}))

EffectiveTokensPerChunk(c) ==
  CASE c.per_tile_mode                                -> c.tokens_per_tile
    [] ~c.per_tile_mode /\ c.tokens_per_chunk > 0     -> c.tokens_per_chunk
    [] OTHER                                          -> AutoChunk(c)

ChunksPerTile(c) == c.tokens_per_tile \div EffectiveTokensPerChunk(c)

NotEmpty(c) == c.total_tokens > 0 /\ c.token_size > 0 /\ c.tokens_per_tile > 0

\* WarpSpecSession's constructor goes on.
Accepted(c) == /\ NotEmpty(c)
               /\ c.tokens_per_tile % EffectiveTokensPerChunk(c) = 0

AutoTuned(c) == ~c.per_tile_mode /\ c.tokens_per_chunk = 0

\* Threads of a block.
BlockSize(c) == IF c.double_buffer THEN (1 + 2 * ChunksPerTile(c)) * 32
                                   ELSE (1 + ChunksPerTile(c)) * 32
=============================================================================
