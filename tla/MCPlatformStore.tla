--------------------------- MODULE MCPlatformStore ---------------------------
(***************************************************************************)
(* The checked instances of PlatformStore: one claim, which the second     *)
(* spec cannot be built with.                                              *)
(***************************************************************************)
EXTENDS PlatformStore

CONSTANTS s1, s2, s3, c

Broken == {[spec |-> s2, claims |-> {c}]}
-----------------------------------------------------------------------------
(* The comment on SetGenerated: a render that holds a lease finishes       *)
(* against the directory it started with.  It is not so when its identity  *)
(* comes back while it renders (a claim leaves and returns): the directory *)
(* is moved away and replaced.                                             *)
LeaseKeepsDirectory == moved = {}
=============================================================================
