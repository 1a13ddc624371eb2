-------------------------- MODULE VariantResidency --------------------------
(***************************************************************************)
(* Which diffusion weights (DiT variant) a request is rendered with. Three *)
(* records of it exist: the parent's active_model_, the child's            *)
(* loaded_variant and, while a chain renders, the lease's `active`. The    *)
(* weights themselves are what sd_ctx_swap_diffusion_model last registered *)
(* (examples/server/worker_supervisor.cpp, async_jobs.cpp, routes_ltx.cpp, *)
(* routes_gpu_sharing.cpp, src/stable-diffusion.cpp).                      *)
(*                                                                         *)
(* The parent switches only an idle child, and nothing is forwarded while  *)
(* it does (WorkerSupervisor), so routing a request is one step. The child *)
(* renders its requests in order (JobManager).                             *)
(***************************************************************************)
EXTENDS Naturals, Sequences

CONSTANTS Variants,       (* the names in the variant map                   *)
          Base,           (* the one called "base"                          *)
          Unnamed,        (* a "model" field that is absent                 *)
          None,           (* no weights, no child                           *)
          Requests,       (* [kind, model, shots]; shots name a variant     *)
                          (* each, for a chain only                         *)
          MaxPending,     (* bound: requests the child holds                *)
          InProcess,      (* LTX_INPROC_MODEL_SWITCH                        *)
          SwapMayFail     (* sd_ctx_swap_diffusion_model may return false   *)

Names == Variants \cup {Unnamed}

ASSUME VariantAssumption ==
    /\ Base \in Variants
    /\ Unnamed \notin Variants /\ None \notin Names
    /\ Requests \subseteq [kind : {"image", "video", "chain"}, model : Names,
                           shots : Seq(Names)]
    /\ \A q \in Requests : q.kind = "chain" <=> q.shots # <<>>
    /\ MaxPending \in Nat \ {0}
    /\ {InProcess, SwapMayFail} \subseteq BOOLEAN

VARIABLES active,       (* the parent's active_model_; None without a child *)
          registered,   (* the variant whose tensors the child registered   *)
          recorded,     (* the child's gpu_sharing.loaded_variant           *)
          pending,      (* requests forwarded and not begun                 *)
          job,          (* the request being rendered, in a sequence        *)
          pc,           (* where the child's worker is                      *)
          shot,         (* the shot of the chain it is at                   *)
          lease,        (* LTXModelLease.active                             *)
          spoiled       (* history: a swap of this child has failed, or a   *)
                        (* chain's lease started from what is not there     *)

vars == <<active, registered, recorded, pending, job, pc, shot, lease, spoiled>>

Init ==
    /\ active = None
    /\ registered = None
    /\ recorded = Base
    /\ pending = <<>>
    /\ job = <<>>
    /\ pc = "idle"
    /\ shot = 1
    /\ lease = Base
    /\ spoiled = FALSE

-----------------------------------------------------------------------------
(* ensure_worker_locked: what a request without a name resolves to.         *)
Resolved(q) ==
    IF q.model # Unnamed THEN q.model ELSE IF active = None THEN Base ELSE active

Idle == pc = "idle" /\ pending = <<>>

Forward(q) == pending' = Append(pending, q)

(* The child has the variant, by the parent's record.                       *)
RouteMatch(q) ==
    /\ active = Resolved(q)
    /\ Len(pending) < MaxPending
    /\ Forward(q)
    /\ UNCHANGED <<active, registered, recorded, job, pc, shot, lease, spoiled>>

(* swap_child_model and the child's POST swap_model, answered 200: it       *)
(* changes the weights and does not write loaded_variant.                   *)
RouteSwap(q) ==
    /\ InProcess
    /\ active \notin {None, Resolved(q)}
    /\ Idle
    /\ active' = Resolved(q)
    /\ registered' = Resolved(q)
    /\ spoiled' = FALSE
    /\ Forward(q)
    /\ UNCHANGED <<recorded, job, pc, shot, lease>>

(* A new child, for want of one or in place of one with other weights or on *)
(* another card: it gets the variant as --diffusion-model and starts with   *)
(* the default of loaded_variant. Also what follows an in-process swap that *)
(* failed.                                                                  *)
RouteFork(q) ==
    /\ Idle
    /\ active' = Resolved(q)
    /\ registered' = Resolved(q)
    /\ recorded' = Base
    /\ spoiled' = FALSE
    /\ Forward(q)
    /\ UNCHANGED <<job, pc, shot, lease>>

(* The child is unloaded or dies, and its requests with it.                 *)
ChildGone ==
    /\ active # None
    /\ active' = None
    /\ registered' = None
    /\ recorded' = Base
    /\ pending' = <<>>
    /\ job' = <<>>
    /\ pc' = "idle"
    /\ shot' = 1
    /\ lease' = Base
    /\ spoiled' = FALSE

-----------------------------------------------------------------------------
(* The worker begins its next request. A chain's lease starts from the      *)
(* "model" field, whose default is the name "base".                         *)
DefaultModel(q) == IF q.model = Unnamed THEN Base ELSE q.model

Begin ==
    /\ pc = "idle" /\ pending # <<>>
    /\ LET q == Head(pending) IN
         /\ job' = <<q>>
         /\ pc' = IF q.kind = "video" THEN "render" ELSE "select"
         /\ lease' = DefaultModel(q)
         /\ spoiled' = (spoiled \/ (q.kind = "chain" /\ DefaultModel(q) # registered))
    /\ pending' = Tail(pending)
    /\ shot' = 1
    /\ UNCHANGED <<active, registered, recorded>>

Request == job[1]
Chain == Request.kind = "chain"

(* swap_diffusion_model fails before it touches the registration, or after  *)
(* it dropped it.                                                           *)
SwapFails ==
    /\ SwapMayFail
    /\ registered' \in {registered, None}
    /\ spoiled' = TRUE

Done ==
    /\ pc' = "idle"
    /\ job' = <<>>
    /\ shot' = 1
    /\ lease' = Base

(* execute_img_gen_job: an image that names a variant swaps to it unless    *)
(* loaded_variant says it is there.                                         *)
SelectForImage ==
    /\ pc = "select" /\ ~Chain
    /\ IF Request.model \in {Unnamed, recorded}
       THEN /\ pc' = "render"
            /\ UNCHANGED <<registered, recorded, job, shot, lease, spoiled>>
       ELSE \/ /\ registered' = Request.model
               /\ recorded' = Request.model
               /\ pc' = "render"
               /\ UNCHANGED <<job, shot, lease, spoiled>>
            \/ /\ SwapFails
               /\ Done
               /\ UNCHANGED recorded
    /\ UNCHANGED <<active, pending>>

(* The variant a shot asks for; the route has put the default in the        *)
(* place of an absent name.                                                 *)
Wanted == IF Request.shots[shot] = Unnamed THEN DefaultModel(Request)
          ELSE Request.shots[shot]

(* Slip: the lease is compared with the chain's default all along. *)
BugLeasesFromDefault ==
    /\ pc = "select" /\ Chain
    /\ IF Wanted = DefaultModel(Request)
       THEN /\ pc' = "render"
            /\ UNCHANGED <<registered, lease, spoiled>>
       ELSE \/ /\ registered' = Wanted
               /\ lease' = Wanted
               /\ pc' = "render"
               /\ UNCHANGED spoiled
            \/ /\ SwapFails
               /\ pc' = "restore"
               /\ UNCHANGED lease
    /\ UNCHANGED <<active, recorded, pending, job, shot>>

(* Slip: a failed swap is recorded as made, and the shot goes on. *)
BugIgnoresFailure ==
    /\ pc = "select" /\ Chain
    /\ IF Wanted = lease
       THEN UNCHANGED <<registered, lease, spoiled>>
       ELSE /\ (registered' = Wanted /\ UNCHANGED spoiled) \/ SwapFails
            /\ lease' = Wanted
    /\ pc' = "render"
    /\ UNCHANGED <<active, recorded, pending, job, shot>>

(* lease_ltx_segment_model.                                                 *)
LeaseForShot ==
    /\ pc = "select" /\ Chain
    /\ IF Wanted = lease
       THEN /\ pc' = "render"
            /\ UNCHANGED <<registered, lease, spoiled>>
       ELSE \/ /\ registered' = Wanted
               /\ lease' = Wanted
               /\ pc' = "render"
               /\ UNCHANGED spoiled
            \/ /\ SwapFails
               /\ pc' = "restore"
               /\ UNCHANGED lease
    /\ UNCHANGED <<active, recorded, pending, job, shot>>

(* The render itself, which may fail, and fails without weights.            *)
RenderImage ==
    /\ pc = "render" /\ ~Chain
    /\ Done
    /\ UNCHANGED <<active, registered, recorded, pending, spoiled>>

RenderShot ==
    /\ pc = "render" /\ Chain
    /\ \/ /\ registered # None
          /\ shot < Len(Request.shots)
          /\ shot' = shot + 1
          /\ pc' = "select"
       \/ /\ pc' = "restore"
          /\ UNCHANGED shot
    /\ UNCHANGED <<active, registered, recorded, pending, job, lease, spoiled>>

(* Slip: a chain ends without giving the weights back. *)
BugNoRestore ==
    /\ pc = "restore"
    /\ Done
    /\ UNCHANGED <<active, registered, recorded, pending, spoiled>>

(* The end of execute_vid_gen_job's chain branch: back to the default, by   *)
(* the lease's record. What the client is told when that fails is left out: *)
(* a streamed video is delivered as if it had not.                          *)
Restore ==
    /\ pc = "restore"
    /\ \/ /\ lease = DefaultModel(Request)
          /\ UNCHANGED <<registered, spoiled>>
       \/ /\ lease # DefaultModel(Request)
          /\ registered' = DefaultModel(Request)
          /\ UNCHANGED spoiled
       \/ lease # DefaultModel(Request) /\ SwapFails
    /\ Done
    /\ UNCHANGED <<active, recorded, pending>>

Next ==
    \/ \E q \in Requests : RouteMatch(q) \/ RouteSwap(q) \/ RouteFork(q)
    \/ ChildGone
    \/ Begin
    \/ SelectForImage
    \/ LeaseForShot
    \/ RenderImage
    \/ RenderShot
    \/ Restore

Spec == Init /\ [][Next]_vars

-----------------------------------------------------------------------------
(* Every variable keeps to its values.                                      *)
TypeOK ==
    /\ {active, registered} \subseteq Variants \cup {None}
    /\ {recorded, lease} \subseteq Variants
    /\ pending \in Seq(Requests)
    /\ job \in Seq(Requests) /\ Len(job) <= 1
    /\ pc \in {"idle", "select", "render", "restore"}
    /\ shot \in Nat \ {0}
    /\ spoiled \in BOOLEAN

(* The variant a render was asked for by name, in the request or its shot.  *)
Named == IF Chain /\ Request.shots[shot] # Unnamed THEN Request.shots[shot]
         ELSE Request.model

(* A request, or a shot, that names a variant is rendered with it or not at *)
(* all, whatever was rendered before it, unless the child is spoiled: only  *)
(* a failed swap or a chain that found other weights than its default       *)
(* leads to a render on the wrong ones.                                     *)
NamedVariantRenders ==
    pc = "render" => Named = Unnamed \/ registered \in {Named, None} \/ spoiled

(* Between requests a child that is not spoiled has the weights its parent  *)
(* believes it has: a shot's override never leaks into a later request.     *)
NothingLeaks == pc = "idle" => registered = active \/ spoiled

(* Once a chain has swapped for a shot, its lease is what is registered,    *)
(* whichever of its swaps fail.                                             *)
LeaseIsTrue ==
    pc \in {"select", "render"} /\ Chain /\ lease # DefaultModel(Request)
        => registered = lease

(* While every swap succeeds, the weights between requests are the ones the *)
(* parent believes in: a chain restores its "supervisor-selected model".    *)
(* The code does not keep it: a chain that names no model runs "base", and  *)
(* leaves it behind in the child of another variant.                        *)
ChainsRestoreTheirModel == pc = "idle" => registered = active
=============================================================================
