----------------------------- MODULE MCUserStore -----------------------------
(***************************************************************************)
(* UserStore for TLC: two users, and commands chosen per configuration.    *)
(***************************************************************************)
EXTENDS UserStore

AllCommands  == UserCommands \cup {"warp", "restart", "update", "install", "wizard", "uninstall"}
Installation == {"add", "install"}
===============================================================================
