---------------------------- MODULE MCBlake3Hasher ----------------------------
(***************************************************************************)
(* Small instances of Blake3Hasher: each way to initialise a hasher, and   *)
(* machines that hash 1, 4, 8 and 16 chunks at once.                       *)
(***************************************************************************)
EXTENDS Blake3Hasher

on(mode, arch, features) == [mode |-> mode, arch |-> arch, features |-> features]

MCHashers ==
  {on("hash", "x86", {"SSE2", "SSE41", "AVX2", "AVX512F", "AVX512VL"}),
   on("hash", "x86", {"SSE2", "SSE41", "AVX2"}),
   on("keyed_hash", "neon", {}), on("derive_key", "portable", {})}
==============================================================================
