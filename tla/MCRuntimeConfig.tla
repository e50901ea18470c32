-------------------------- MODULE MCRuntimeConfig ---------------------------
(***************************************************************************)
(* An instance of RuntimeConfig for TLC: a server that a save disables or  *)
(* drops.  Servers share nothing but what start() waits for.               *)
(***************************************************************************)
EXTENDS RuntimeConfig

CONSTANT a

Cfg(servers, enabled, refreshed, auth) ==
    [servers |-> servers, enabled |-> enabled, refreshed |-> refreshed, auth |-> auth]

Saved == {Cfg({a}, {a}, {a}, "hybrid"), Cfg({a}, {}, {}, "static_key"), Cfg({}, {}, {}, "oauth")}
=============================================================================
