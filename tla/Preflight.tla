------------------------------- MODULE Preflight -------------------------------
(***************************************************************************)
(* The gate in front of a replay of sessions (src/src/backend/preflight.rs,*)
(* runner.rs): the same probe twice, and the second answer must report a   *)
(* hit of the prefix cache, so that a hit rate of zero means something.    *)
(*                                                                         *)
(* The probe is the tail of the token pool.  The positions of the pool     *)
(* stand for its tokens: no two are the same.                              *)
(***************************************************************************)
EXTENDS Wire
LOCAL INSTANCE SequencesExt

CONSTANTS ProbeTokens  \* PREFLIGHT_PROBE_TOKENS

ASSUME PreflightAssumption == ProbeTokens \in Nat \ {0}

\* run_once_reusing: the probe for a pool of so many tokens.
Probe(pool_len) ==
  LET probe_len == IF pool_len < ProbeTokens THEN pool_len ELSE ProbeTokens IN
  [i \in 1 .. probe_len |-> pool_len - probe_len + i]

\* What a unit that begins at a seed takes from the pool (TokenProvider).
FirstPrompt(pool_len, seed, len) == [i \in 1 .. len |-> ((seed + i - 1) % pool_len) + 1]

\* Where the unit of an ordinal begins (run_session, run_independent_request).
SeedOffset(stride, ordinal) == ordinal * stride

\* depends_on_prefix_cache.
DependsOnPrefixCache(kind) == kind = "sessions"

\* final_usage_from_sse: the last report as a whole, of any data line.
FinalUsage(protocol, lines) ==
  LET usages == UsagesOf(protocol, SelectSeq(lines, LAMBDA l :
                  l.field \in {"data: ", "data:"} /\ ~l.done))
  IN  IF usages = <<>> THEN {} ELSE {Last(usages)}

\* preflight_cache_check, given the answer to the second probe.
Passes(protocol, lines) == \E u \in FinalUsage(protocol, lines) : u.cached > 0

\* run_once_reusing: a replay that the gate lets start.
Starts(kind, protocol, lines) == DependsOnPrefixCache(kind) => Passes(protocol, lines)

\* A server that caches whole blocks and always computes the last token: how much
\* of prompt it finds after it has seen others.
CachedTokens(block, seen, prompt) ==
  LET shared(p) == {n \in 0 .. Len(prompt) - 1 :
                      n % block = 0 /\ n <= Len(p) /\ SubSeq(p, 1, n) = SubSeq(prompt, 1, n)}
      found == {0} \cup UNION {shared(p) : p \in seen}
  IN  CHOOSE n \in found : \A k \in found : k <= n

-----------------------------------------------------------------------------
(* What the gate and the replay behind it do to each other. *)

\* The gate can only pass where a block is shorter than the probe, and the first
\* prompt of unit 0 finds nothing of the probe in the cache unless the probe is the
\* whole pool: there the tail is the head (runner.rs:200-218).
ProbeIsApart(block, pool_len) ==
  LET probe       == Probe(pool_len)
      hit(prompt) == CachedTokens(block, {probe}, prompt) > 0
  IN  /\ hit(probe) <=> block < Len(probe)
      /\ hit(FirstPrompt(pool_len, 0, pool_len)) <=> pool_len <= ProbeTokens /\ block < pool_len

\* Two units share a prefix only if they begin at the same place of the pool.  The
\* content of the first two overlaps unless the stride has room for it, and the
\* pool for both (runner.rs:157-161 says that units never overlap).
SeedsAreApart(pool_len, stride, i, j, len) ==
  LET prompt(k) == FirstPrompt(pool_len, SeedOffset(stride, k), len)
      window(k) == {prompt(k)[n] : n \in 1 .. len}
      start(k)  == SeedOffset(stride, k) % pool_len
  IN  /\ CachedTokens(1, {Append(prompt(i), 0)}, Append(prompt(j), 0)) > 0 <=> start(i) = start(j)
      /\ window(0) \cap window(1) = {} <=> len <= stride /\ stride + len <= pool_len

===============================================================================
