----------------------------- MODULE MCLifecycle -----------------------------
(***************************************************************************)
(* Small instances of Lifecycle, one set of flag settings each.            *)
(***************************************************************************)
EXTENDS Lifecycle

Flags(p, s) == [polling : {p}, subscribe : {s}, vault : BOOLEAN]

RestOnly == Flags(FALSE, FALSE)
AnyConfig == Config
PollingOnly == Flags(TRUE, FALSE)
SubscribeOnly == Flags(FALSE, TRUE)
==============================================================================
