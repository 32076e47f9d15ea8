-------------------------- MODULE MCRemoteTransfer --------------------------
(* Instance of RemoteTransfer for TLC.  The first URL has two versions     *)
(* with strong validators and a longer one without; the second URL repeats *)
(* the first validator.                                                    *)
EXTENDS RemoteTransfer, TLC

CONSTANTS q1, q2, v1, v2, v3, v4, t1, t2

MCResource == v1 :> q1 @@ v2 :> q1 @@ v3 :> q2 @@ v4 :> q1
MCSize == v1 :> 2 @@ v2 :> 2 @@ v3 :> 2 @@ v4 :> 3
MCEtag == v1 :> t1 @@ v2 :> t2 @@ v3 :> t1 @@ v4 :> NoTag

(* Only a request sees what the provider holds, and every state of it is   *)
(* reached while the request is on its way.                                *)
MCNext == Next /\ (current' # current => pc \in {"idle", "send"})

MCSpec == Init /\ [][MCNext]_vars /\ WF_vars(Engine)

=============================================================================
