------------------------------ MODULE Session ------------------------------
(***************************************************************************)
(* What one run of the server promises: it takes one client, for good; the *)
(* connection then opens on the client's side first and on its own side    *)
(* after that; and no other client is ever told that it is connected.      *)
(***************************************************************************)
CONSTANTS Clients,  \* those who may ask
          None      \* nobody yet

VARIABLES owner,    \* the client the server has taken
          opened,   \* clients whose side of a connection has been open
          serving   \* the server's side has been open

sessionVars == <<owner, opened, serving>>

Init ==
  /\ owner = None
  /\ opened = {}
  /\ serving = FALSE

Take(c) ==
  /\ owner = None
  /\ owner' = c
  /\ UNCHANGED <<opened, serving>>

OpenClient ==
  /\ owner # None
  /\ opened = {}
  /\ opened' = {owner}
  /\ UNCHANGED <<owner, serving>>

OpenServer ==
  /\ opened = {owner}
  /\ serving' = TRUE
  /\ UNCHANGED <<owner, opened>>

Next == (\E c \in Clients : Take(c)) \/ OpenClient \/ OpenServer

Spec == Init /\ [][Next]_sessionVars
=============================================================================
