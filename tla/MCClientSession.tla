--------------------------- MODULE MCClientSession ---------------------------
(***************************************************************************)
(* Instances of ClientSession: clients that know any modern and any legacy  *)
(* versions, supported and not.                                             *)
(***************************************************************************)
EXTENDS ClientSession

Future  == 99999999
Between == 20260101
Ancient == 20241105

MCClients ==
    {c \in [modern : SUBSET {v20260728, Future}, legacy : SUBSET {Ancient, v20250618, v20251125, Between},
            discovers : BOOLEAN] :
       IF c.discovers THEN c.modern # {} ELSE c.legacy # {}}

MCRequestBodies ==
    {SessionRequest(p, v, e) : p \in {"discover", "initialize", "initialized", "list", "call"},
                               v \in {v20260728, Future, Ancient, v20250618, v20251125, Between},
                               e \in Eras}
=============================================================================
