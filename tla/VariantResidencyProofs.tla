----------------------- MODULE VariantResidencyProofs -----------------------
(***************************************************************************)
(* The safety of VariantResidency, for any variants, requests and pending  *)
(* limit, with in-process switches or without, and with failing swaps.     *)
(*                                                                         *)
(* The parent changes its mind only over an idle child, so whatever waits  *)
(* or renders there names the variant that active_model_ names, or none.   *)
(* As long as the child is not spoiled, its weights are then that variant, *)
(* but for a chain between a shot's override and its restore, where they   *)
(* are what the lease says.                                                *)
(***************************************************************************)
EXTENDS VariantResidency, SequenceTheorems, TLAPS

(* The child works on a request or on none. *)
JobIsOne ==
    /\ pc = "idle" => job = <<>>
    /\ pc # "idle" => Len(job) = 1 /\ active # None
    /\ pc = "restore" => Chain
    /\ pc # "idle" /\ Chain => shot \in 1..Len(Request.shots)
    /\ pending # <<>> => active # None

(* It has nothing to do for another variant than the parent's. *)
RoutedHere ==
    /\ \A i \in DOMAIN pending : pending[i].model \in {Unnamed, active}
    /\ pc # "idle" => Request.model \in {Unnamed, active}

(* Where the weights are, unless a swap failed or a lease started wrong. *)
Unspoiled ==
    ~spoiled =>
      /\ pc = "idle" \/ ~Chain => registered = active
      /\ pc # "idle" /\ Chain => registered = lease /\ DefaultModel(Request) = active

(* A shot renders once its variant is leased. *)
ShotLeased == pc = "render" /\ Chain => lease = Wanted

Safe == JobIsOne /\ RoutedHere /\ Unspoiled /\ ShotLeased /\ LeaseIsTrue

-----------------------------------------------------------------------------
LEMMA InitSafe == Init => TypeOK /\ Safe
<1> SUFFICES ASSUME Init PROVE TypeOK /\ Safe
  OBVIOUS
<1>1. TypeOK
  <2>1. pending \in Seq(Requests) /\ job \in Seq(Requests) /\ Len(job) <= 1
    BY EmptySeq DEF Init
  <2>2. /\ {active, registered} \subseteq Variants \cup {None}
        /\ {recorded, lease} \subseteq Variants
    BY VariantAssumption DEF Init
  <2>3. pc \in {"idle", "select", "render", "restore"} /\ shot \in Nat \ {0}
    BY DEF Init
  <2>4. spoiled \in BOOLEAN
    BY DEF Init
  <2> QED
    BY <2>1, <2>2, <2>3, <2>4 DEF TypeOK
<1>2. Safe
  BY DEF Init, Safe, JobIsOne, RoutedHere, Unspoiled, ShotLeased, LeaseIsTrue
<1> QED
  BY <1>1, <1>2

(* The request being rendered, and what it asks for. *)
LEMMA RequestType ==
    ASSUME TypeOK, Safe, pc # "idle"
    PROVE  /\ Request \in Requests /\ Request.model \in Names
           /\ DefaultModel(Request) \in Variants
           /\ active \in Variants
           /\ Chain => /\ Len(Request.shots) \in Nat
                       /\ shot \in 1..Len(Request.shots)
                       /\ Wanted \in Variants
<1>1. Request \in Requests
  <2>1. job \in Seq(Requests)
    BY DEF TypeOK
  <2>2. Len(job) = 1
    BY DEF Safe, JobIsOne
  <2>3. 1 \in 1..Len(job)
    BY <2>2
  <2> QED
    BY <2>1, <2>3, ElementOfSeq DEF Request
<1>2. Request.model \in Names /\ Request.shots \in Seq(Names)
  BY <1>1, VariantAssumption
<1>3. DefaultModel(Request) \in Variants
  BY <1>2, VariantAssumption DEF DefaultModel, Names
<1>4. active \in Variants
  BY DEF TypeOK, Safe, JobIsOne
<1>5. ASSUME Chain
      PROVE  /\ Len(Request.shots) \in Nat /\ shot \in 1..Len(Request.shots)
             /\ Wanted \in Variants
  <2>1. Len(Request.shots) \in Nat /\ shot \in 1..Len(Request.shots)
    BY <1>2, <1>5, LenProperties DEF Safe, JobIsOne
  <2>2. Request.shots[shot] \in Names
    BY <1>2, <2>1, ElementOfSeq
  <2> QED
    BY <2>1, <2>2, <1>3, VariantAssumption DEF Wanted, Names
<1> QED
  BY <1>1, <1>2, <1>3, <1>4, <1>5

(* A request that is forwarded to the child of its variant. *)
LEMMA ForwardType ==
    ASSUME TypeOK, NEW q \in Requests, Forward(q)
    PROVE  /\ pending' \in Seq(Requests) /\ pending' # <<>>
           /\ \A i \in DOMAIN pending' :
                pending'[i] = q \/ (i \in DOMAIN pending /\ pending'[i] = pending[i])
           /\ pending = <<>> => \A i \in DOMAIN pending' : pending'[i] = q
<1>1. /\ pending' \in Seq(Requests) /\ pending' # <<>>
      /\ Len(pending') = Len(pending) + 1 /\ Len(pending) \in Nat
      /\ \A i \in 1..Len(pending) : pending'[i] = pending[i]
      /\ pending'[Len(pending) + 1] = q
  BY AppendProperties, LenProperties DEF Forward, TypeOK
<1>2. DOMAIN pending' = 1..(Len(pending) + 1) /\ DOMAIN pending = 1..Len(pending)
  BY <1>1, LenProperties DEF TypeOK
<1>3. ASSUME NEW i \in DOMAIN pending'
      PROVE  pending'[i] = q \/ (i \in DOMAIN pending /\ pending'[i] = pending[i])
  <2>1. i = Len(pending) + 1 \/ i \in 1..Len(pending)
    BY <1>1, <1>2
  <2> QED
    BY <1>1, <1>2, <2>1
<1>4. ASSUME pending = <<>>, NEW i \in DOMAIN pending' PROVE pending'[i] = q
  BY <1>1, <1>2, <1>3, <1>4
<1> QED
  BY <1>1, <1>3, <1>4

(* Routing: what is forwarded names the child's variant, and the weights    *)
(* change only under an idle child.                                         *)
LEMMA RouteSafe ==
    ASSUME TypeOK, Safe, NEW q \in Requests,
           RouteMatch(q) \/ RouteSwap(q) \/ RouteFork(q)
    PROVE  TypeOK' /\ Safe'
<1>1. /\ Resolved(q) \in Variants /\ q.model \in Names
      /\ q.model \in {Unnamed, Resolved(q)}
  BY VariantAssumption DEF Resolved, Names, TypeOK
<1>2. Forward(q) /\ active' = Resolved(q) /\ UNCHANGED <<job, pc, shot, lease>>
  BY DEF RouteMatch, RouteSwap, RouteFork
<1>3. \/ UNCHANGED <<active, registered, recorded, spoiled>>
      \/ /\ pc = "idle" /\ pending = <<>>
         /\ registered' = Resolved(q) /\ recorded' \in {recorded, Base}
         /\ spoiled' = FALSE
  BY DEF RouteMatch, RouteSwap, RouteFork, Idle
<1>4. TypeOK'
  <2>1. pending' \in Seq(Requests) /\ job' = job
    BY <1>2, ForwardType
  <2>2. /\ {active', registered'} \subseteq Variants \cup {None}
        /\ {recorded', lease'} \subseteq Variants
    BY <1>1, <1>2, <1>3, VariantAssumption DEF TypeOK
  <2>3. /\ pc' \in {"idle", "select", "render", "restore"}
        /\ shot' \in Nat \ {0}
    BY <1>2 DEF TypeOK
  <2>4. spoiled' \in BOOLEAN
    BY <1>3 DEF TypeOK
  <2> QED
    BY <2>1, <2>2, <2>3, <2>4 DEF TypeOK
<1>5. active' # None
  BY <1>1, <1>2, VariantAssumption DEF Names
<1>6. JobIsOne'
  BY <1>2, <1>5 DEF Safe, JobIsOne, Chain, Request
<1>7. RoutedHere'
  <2>1. CASE UNCHANGED active
    BY <1>1, <1>2, <2>1, ForwardType DEF Safe, RoutedHere, Request
  <2>2. CASE pc = "idle" /\ pending = <<>>
    BY <1>1, <1>2, <2>2, ForwardType DEF RoutedHere
  <2> QED
    BY <1>3, <2>1, <2>2
<1>8. Unspoiled'
  BY <1>2, <1>3 DEF Safe, Unspoiled, Chain, Request, DefaultModel
<1>9. ShotLeased' /\ LeaseIsTrue'
  BY <1>2, <1>3
  DEF Safe, ShotLeased, LeaseIsTrue, Chain, Request, DefaultModel, Wanted
<1> QED
  BY <1>4, <1>6, <1>7, <1>8, <1>9 DEF Safe

LEMMA GoneSafe ==
    ASSUME TypeOK, Safe, ChildGone
    PROVE  TypeOK' /\ Safe'
<1>1. TypeOK'
  <2>1. pending' \in Seq(Requests) /\ job' \in Seq(Requests) /\ Len(job') <= 1
    BY EmptySeq DEF ChildGone
  <2>2. /\ {active', registered'} \subseteq Variants \cup {None}
        /\ {recorded', lease'} \subseteq Variants
    BY VariantAssumption DEF ChildGone
  <2>3. pc' \in {"idle", "select", "render", "restore"} /\ shot' \in Nat \ {0}
    BY DEF ChildGone
  <2>4. spoiled' \in BOOLEAN
    BY DEF ChildGone
  <2> QED
    BY <2>1, <2>2, <2>3, <2>4 DEF TypeOK
<1>2. Safe'
  BY DEF ChildGone, Safe, JobIsOne, RoutedHere, Unspoiled, ShotLeased, LeaseIsTrue
<1> QED
  BY <1>1, <1>2

(* A chain that starts from other weights than its default spoils them. *)
LEMMA BeginSafe ==
    ASSUME TypeOK, Safe, Begin
    PROVE  TypeOK' /\ Safe'
<1> DEFINE q == Head(pending)
<1>1. /\ pc = "idle" /\ pending # <<>>
      /\ job' = <<q>>
      /\ pc' = IF q.kind = "video" THEN "render" ELSE "select"
      /\ lease' = DefaultModel(q)
      /\ spoiled' = (spoiled \/ (q.kind = "chain" /\ DefaultModel(q) # registered))
      /\ pending' = Tail(pending) /\ shot' = 1
      /\ UNCHANGED <<active, registered, recorded>>
  BY DEF Begin
<1>2. /\ q \in Requests /\ pending' \in Seq(Requests)
      /\ Len(pending') = Len(pending) - 1
      /\ \A i \in 1..Len(pending') : pending'[i] = pending[i + 1]
  BY <1>1, HeadTailProperties DEF TypeOK
<1>3. /\ Len(pending) \in Nat \ {0} /\ DOMAIN pending = 1..Len(pending)
      /\ DOMAIN pending' = 1..Len(pending') /\ q = pending[1]
  BY <1>1, <1>2, LenProperties, EmptySeq DEF TypeOK
<1> HIDE DEF q
<1>4. job' \in Seq(Requests) /\ Len(job') = 1 /\ Request' = q
  BY <1>1, <1>2 DEF Request
<1>5. /\ q.model \in Names /\ q.shots \in Seq(Names)
      /\ q.kind \in {"image", "video", "chain"}
      /\ (q.kind = "chain" <=> q.shots # <<>>)
  BY <1>2, VariantAssumption
<1>6. DefaultModel(q) \in Variants
  BY <1>5, VariantAssumption DEF DefaultModel, Names
<1>7. TypeOK'
  <2>1. spoiled' \in BOOLEAN
    BY <1>1
  <2>2. pc' \in {"render", "select"}
    BY <1>1
  <2> QED
    BY <1>1, <1>2, <1>4, <1>6, <2>1, <2>2 DEF TypeOK
<1>8. JobIsOne'
  <2>1. q.kind = "chain" => 1 \in 1..Len(q.shots)
    BY <1>5, LenProperties, EmptySeq
  <2> QED
    BY <1>1, <1>4, <2>1 DEF Safe, JobIsOne, Chain
<1>9. RoutedHere'
  BY <1>1, <1>2, <1>3, <1>4 DEF Safe, RoutedHere
<1>10. Unspoiled'
  <2>1. CASE q.kind = "chain"
    <3>1. q.model \in {Unnamed, active}
      BY <1>3 DEF Safe, RoutedHere
    <3> QED
      BY <1>1, <1>4, <2>1 DEF Safe, Unspoiled, Chain
  <2>2. CASE q.kind # "chain"
    BY <1>1, <1>4, <2>2 DEF Safe, Unspoiled, Chain
  <2> QED
    BY <2>1, <2>2
<1>11. ShotLeased'
  <2>1. pc' = "render" => q.kind # "chain"
    BY <1>1
  <2> QED
    BY <1>4, <2>1 DEF ShotLeased, Chain
<1>12. LeaseIsTrue'
  BY <1>1, <1>4 DEF LeaseIsTrue, DefaultModel
<1> QED
  BY <1>7, <1>8, <1>9, <1>10, <1>11, <1>12 DEF Safe

(* What every step of a render keeps: the child's work and the parent's     *)
(* belief. The rest is where the weights and the lease are.                 *)
LEMMA KeptWork ==
    ASSUME TypeOK, Safe, pc # "idle", UNCHANGED <<active, pending, recorded>>,
           \/ pc' \in {"select", "render", "restore"} /\ UNCHANGED job
           \/ Done,
           pc' = "restore" => Chain,
           pc' # "idle" /\ Chain => shot' \in 1..Len(Request.shots)
    PROVE  JobIsOne' /\ RoutedHere'
<1>1. JobIsOne'
  BY DEF Safe, JobIsOne, Done, Chain, Request
<1>2. RoutedHere'
  BY DEF Safe, RoutedHere, Done, Request
<1> QED
  BY <1>1, <1>2

(* A failed swap, from either of the places that one is made in a render. *)
LEMMA FailedSwap ==
    ASSUME TypeOK, SwapFails
    PROVE  registered' \in Variants \cup {None} /\ spoiled' \in BOOLEAN /\ spoiled'
<1>1. registered' \in Variants \cup {None} /\ spoiled'
  BY DEF SwapFails, TypeOK
<1>2. spoiled' \in BOOLEAN
  BY DEF SwapFails
<1> QED
  BY <1>1, <1>2

LEMMA ImageSafe ==
    ASSUME TypeOK, Safe, SelectForImage
    PROVE  TypeOK' /\ Safe'
<1>1. /\ pc = "select" /\ ~Chain /\ UNCHANGED <<active, pending>>
  BY DEF SelectForImage
<1>2. /\ Request.model \in Names /\ Request.model \in {Unnamed, active}
      /\ job \in Seq(Requests) /\ Len(job) <= 1
  BY <1>1, RequestType DEF Safe, RoutedHere, TypeOK
<1>3. CASE /\ pc' = "render"
           /\ UNCHANGED <<registered, recorded, job, shot, lease, spoiled>>
  <2>1. TypeOK'
    <3>1. spoiled' \in BOOLEAN
      BY <1>3 DEF TypeOK
    <3> QED
      BY <1>1, <1>3, <3>1 DEF TypeOK
  <2>2. JobIsOne' /\ RoutedHere'
    BY <1>1, <1>3, KeptWork
  <2>3. Unspoiled' /\ ShotLeased' /\ LeaseIsTrue'
    BY <1>1, <1>3 DEF Safe, Unspoiled, ShotLeased, LeaseIsTrue, Chain, Request
  <2> QED
    BY <2>1, <2>2, <2>3 DEF Safe
<1>4. CASE /\ Request.model \notin {Unnamed, recorded}
           /\ registered' = Request.model /\ recorded' = Request.model
           /\ pc' = "render"
           /\ UNCHANGED <<job, shot, lease, spoiled>>
  <2>1. Request.model \in Variants /\ registered' = active
    BY <1>2, <1>4 DEF Names
  <2>2. TypeOK'
    <3>1. spoiled' \in BOOLEAN
      BY <1>4 DEF TypeOK
    <3> QED
      BY <1>1, <1>4, <2>1, <3>1 DEF TypeOK
  <2>3. JobIsOne' /\ RoutedHere'
    BY <1>1, <1>4 DEF Safe, JobIsOne, RoutedHere, Chain, Request
  <2>4. Unspoiled' /\ ShotLeased' /\ LeaseIsTrue'
    BY <1>1, <1>4, <2>1
    DEF Safe, Unspoiled, ShotLeased, LeaseIsTrue, Chain, Request
  <2> QED
    BY <2>2, <2>3, <2>4 DEF Safe
<1>5. CASE SwapFails /\ Done /\ UNCHANGED recorded
  <2>1. TypeOK'
    <3>1. /\ pc' = "idle" /\ job' = <<>> /\ shot' = 1 /\ lease' = Base
          /\ recorded' = recorded
      BY <1>5 DEF Done
    <3>2. job' \in Seq(Requests) /\ Len(job') <= 1
      BY <3>1, EmptySeq
    <3> QED
      BY <1>1, <1>5, <3>1, <3>2, FailedSwap, VariantAssumption DEF TypeOK
  <2>2. JobIsOne' /\ RoutedHere'
    BY <1>1, <1>5, KeptWork DEF Done
  <2>3. Unspoiled' /\ ShotLeased' /\ LeaseIsTrue'
    BY <1>5, FailedSwap DEF Done, Unspoiled, ShotLeased, LeaseIsTrue
  <2> QED
    BY <2>1, <2>2, <2>3 DEF Safe
<1> QED
  BY <1>3, <1>4, <1>5 DEF SelectForImage

(* A shot's override moves the weights and the lease together. *)
LEMMA LeaseSafe ==
    ASSUME TypeOK, Safe, LeaseForShot
    PROVE  TypeOK' /\ Safe'
<1>1. /\ pc = "select" /\ Chain
      /\ UNCHANGED <<active, recorded, pending, job, shot>>
  BY DEF LeaseForShot
<1>2. Wanted \in Variants /\ shot \in 1..Len(Request.shots)
  BY <1>1, RequestType
<1>3. /\ Request' = Request /\ Chain' = Chain /\ Wanted' = Wanted
      /\ DefaultModel(Request)' = DefaultModel(Request)
  BY <1>1 DEF Request, Chain, Wanted, DefaultModel
<1>4. pc' \in {"render", "restore"}
  BY DEF LeaseForShot
<1>5. JobIsOne' /\ RoutedHere'
  BY <1>1, <1>2, <1>4, KeptWork
<1>6. CASE /\ Wanted = lease /\ pc' = "render"
           /\ UNCHANGED <<registered, lease, spoiled>>
  <2>1. TypeOK'
    <3>1. spoiled' \in BOOLEAN
      BY <1>6 DEF TypeOK
    <3> QED
      BY <1>1, <1>6, <3>1 DEF TypeOK
  <2>2. Unspoiled' /\ ShotLeased' /\ LeaseIsTrue'
    BY <1>1, <1>3, <1>6 DEF Safe, Unspoiled, ShotLeased, LeaseIsTrue
  <2> QED
    BY <1>5, <2>1, <2>2 DEF Safe
<1>7. CASE /\ registered' = Wanted /\ lease' = Wanted
           /\ pc' = "render" /\ UNCHANGED spoiled
  <2>1. TypeOK'
    <3>1. spoiled' \in BOOLEAN
      BY <1>7 DEF TypeOK
    <3> QED
      BY <1>1, <1>2, <1>7, <3>1 DEF TypeOK
  <2>2. Unspoiled' /\ ShotLeased' /\ LeaseIsTrue'
    BY <1>1, <1>3, <1>7 DEF Safe, Unspoiled, ShotLeased, LeaseIsTrue
  <2> QED
    BY <1>5, <2>1, <2>2 DEF Safe
<1>8. CASE SwapFails /\ pc' = "restore" /\ UNCHANGED lease
  <2>1. TypeOK'
    BY <1>1, <1>8, FailedSwap DEF TypeOK
  <2>2. Unspoiled' /\ ShotLeased' /\ LeaseIsTrue'
    BY <1>8, FailedSwap DEF Unspoiled, ShotLeased, LeaseIsTrue
  <2> QED
    BY <1>5, <2>1, <2>2 DEF Safe
<1> QED
  BY <1>6, <1>7, <1>8 DEF LeaseForShot

LEMMA RenderSafe ==
    ASSUME TypeOK, Safe, RenderImage \/ RenderShot
    PROVE  TypeOK' /\ Safe'
<1>1. /\ pc = "render"
      /\ UNCHANGED <<active, registered, recorded, pending, spoiled>>
  BY DEF RenderImage, RenderShot
<1>2. spoiled' \in BOOLEAN
  BY <1>1 DEF TypeOK
<1>3. CASE RenderImage
  <2>1. ~Chain /\ pc' = "idle" /\ job' = <<>> /\ shot' = 1 /\ lease' = Base
    BY <1>3 DEF RenderImage, Done
  <2>2. TypeOK'
    <3>1. job' \in Seq(Requests) /\ Len(job') <= 1
      BY <2>1, EmptySeq
    <3> QED
      BY <1>1, <1>2, <2>1, <3>1, VariantAssumption DEF TypeOK
  <2>3. Safe'
    BY <1>1, <2>1
    DEF Safe, JobIsOne, RoutedHere, Unspoiled, ShotLeased, LeaseIsTrue
  <2> QED
    BY <2>2, <2>3
<1>4. CASE RenderShot
  <2>1. Chain /\ UNCHANGED <<job, lease>>
    BY <1>4 DEF RenderShot
  <2>2. Len(Request.shots) \in Nat /\ shot \in 1..Len(Request.shots)
    BY <1>1, <2>1, RequestType
  <2>3. pc' \in {"select", "restore"} /\ shot' \in 1..Len(Request.shots)
    BY <1>4, <2>2 DEF RenderShot
  <2>4. TypeOK'
    BY <1>1, <1>2, <2>1, <2>2, <2>3 DEF TypeOK
  <2>5. JobIsOne' /\ RoutedHere'
    BY <1>1, <2>1, <2>3, KeptWork
  <2>6. Unspoiled' /\ ShotLeased' /\ LeaseIsTrue'
    BY <1>1, <2>1, <2>3
    DEF Safe, Unspoiled, ShotLeased, LeaseIsTrue, Chain, Request, DefaultModel
  <2> QED
    BY <2>4, <2>5, <2>6 DEF Safe
<1> QED
  BY <1>3, <1>4

(* The end of a chain gives back what the lease says it took. *)
LEMMA RestoreSafe ==
    ASSUME TypeOK, Safe, Restore
    PROVE  TypeOK' /\ Safe'
<1>1. /\ pc = "restore" /\ Chain /\ UNCHANGED <<active, recorded, pending>>
      /\ pc' = "idle" /\ job' = <<>> /\ shot' = 1 /\ lease' = Base
  BY DEF Restore, Done, Safe, JobIsOne
<1>2. DefaultModel(Request) \in Variants
  BY <1>1, RequestType
<1>3. /\ registered' \in Variants \cup {None}
      /\ spoiled' \in BOOLEAN
  <2>1. CASE UNCHANGED <<registered, spoiled>>
    BY <2>1 DEF TypeOK
  <2>2. CASE registered' = DefaultModel(Request) /\ UNCHANGED spoiled
    BY <1>2, <2>2 DEF TypeOK
  <2>3. CASE SwapFails
    BY <2>3, FailedSwap
  <2> QED
    BY <2>1, <2>2, <2>3 DEF Restore
<1>4. TypeOK'
  <2>1. job' \in Seq(Requests) /\ Len(job') <= 1
    BY <1>1, EmptySeq
  <2> QED
    BY <1>1, <1>3, <2>1, VariantAssumption DEF TypeOK
<1>5. ~spoiled' => registered' = active
  <2>1. CASE SwapFails
    BY <2>1, FailedSwap
  <2>2. CASE lease = DefaultModel(Request) /\ UNCHANGED <<registered, spoiled>>
    BY <1>1, <2>2 DEF Safe, Unspoiled
  <2>3. CASE registered' = DefaultModel(Request) /\ UNCHANGED spoiled
    BY <1>1, <2>3 DEF Safe, Unspoiled
  <2> QED
    BY <2>1, <2>2, <2>3 DEF Restore
<1>6. Safe'
  BY <1>1, <1>5
  DEF Safe, JobIsOne, RoutedHere, Unspoiled, ShotLeased, LeaseIsTrue
<1> QED
  BY <1>4, <1>6

-----------------------------------------------------------------------------
LEMMA StepSafe == TypeOK /\ Safe /\ [Next]_vars => TypeOK' /\ Safe'
<1> SUFFICES ASSUME TypeOK, Safe, [Next]_vars PROVE TypeOK' /\ Safe'
  OBVIOUS
<1>1. CASE \E q \in Requests : RouteMatch(q) \/ RouteSwap(q) \/ RouteFork(q)
  BY <1>1, RouteSafe
<1>2. CASE ChildGone
  BY <1>2, GoneSafe
<1>3. CASE Begin
  BY <1>3, BeginSafe
<1>4. CASE SelectForImage
  BY <1>4, ImageSafe
<1>5. CASE LeaseForShot
  BY <1>5, LeaseSafe
<1>6. CASE RenderImage \/ RenderShot
  BY <1>6, RenderSafe
<1>7. CASE Restore
  BY <1>7, RestoreSafe
<1>8. CASE UNCHANGED vars
  <2>1. TypeOK'
    <3>1. spoiled' \in BOOLEAN
      BY <1>8 DEF vars, TypeOK
    <3> QED
      BY <1>8, <3>1 DEF vars, TypeOK
  <2>2. Safe'
    BY <1>8
    DEF vars, Safe, JobIsOne, RoutedHere, Unspoiled, ShotLeased, LeaseIsTrue,
        Chain, Request, DefaultModel, Wanted
  <2> QED
    BY <2>1, <2>2
<1> QED
  BY <1>1, <1>2, <1>3, <1>4, <1>5, <1>6, <1>7, <1>8 DEF Next

LEMMA AlwaysSafe == Spec => [](TypeOK /\ Safe)
<1>1. Init => TypeOK /\ Safe
  BY InitSafe
<1>2. (TypeOK /\ Safe) /\ [Next]_vars => (TypeOK /\ Safe)'
  BY StepSafe
<1> QED
  BY <1>1, <1>2, PTL DEF Spec

(* Every variable keeps to its values. *)
THEOREM TypeCorrect == Spec => []TypeOK
<1> QED
  BY AlwaysSafe, PTL

(* A request, or a shot of a chain, that names a variant is rendered with   *)
(* it or fails, unless a swap of this child failed or a chain's lease       *)
(* started from weights that were not there (lease_ltx_segment_model,       *)
(* execute_img_gen_job, ensure_worker_locked).                              *)
THEOREM NamedRenders == Spec => []NamedVariantRenders
<1>1. ASSUME TypeOK, Safe PROVE NamedVariantRenders
  <2>1. SUFFICES ASSUME pc = "render", Named # Unnamed, ~spoiled
                 PROVE  registered = Named
    BY DEF NamedVariantRenders
  <2>2. CASE Chain
    <3>1. Wanted = Named
      BY <2>1, <2>2 DEF Wanted, Named, DefaultModel
    <3> QED
      BY <1>1, <2>1, <2>2, <3>1 DEF Safe, Unspoiled, ShotLeased
  <2>3. CASE ~Chain
    BY <1>1, <2>1, <2>3 DEF Safe, Unspoiled, RoutedHere, Named
  <2> QED
    BY <2>2, <2>3
<1> QED
  BY <1>1, AlwaysSafe, PTL

(* Between requests an unspoiled child has the weights that active_model_   *)
(* names, whatever the shots of earlier chains asked for.                   *)
THEOREM LeaksNothing == Spec => []NothingLeaks
<1>1. ASSUME TypeOK, Safe PROVE NothingLeaks
  BY <1>1 DEF Safe, Unspoiled, NothingLeaks
<1> QED
  BY <1>1, AlwaysSafe, PTL

(* A lease that has moved away from its default says what is registered. *)
THEOREM LeaseTrue == Spec => []LeaseIsTrue
<1>1. TypeOK /\ Safe => LeaseIsTrue
  BY DEF Safe
<1> QED
  BY <1>1, AlwaysSafe, PTL
=============================================================================
