--------------------------- MODULE MCCalculations ---------------------------
(***************************************************************************)
(* The calculations over bounded inputs: the throttle decision, what a pod *)
(* requests, what a selector matches, what the gauges show.  A behaviour is*)
(* one call: an initial state holds its arguments, the step the answer.    *)
(***************************************************************************)
EXTENDS ResourceAmount, ResourceList, Selectors, ThrottleMetrics

CONSTANTS
    MaxThreshold, MaxUsed, MaxRequest,        \* bounds of the decision
    MaxQuantity, MaxContainers,               \* bounds of a pod's lists
    PodLabels, NamespaceLabels, MaxTerms,     \* bounds of a selector
    Mentioned, MaxRecorded                    \* what a recorded amount mentions, at most how much

ASSUME BoundsAssumption ==
    {MaxThreshold, MaxUsed, MaxRequest, MaxQuantity, MaxContainers, MaxTerms,
     MaxRecorded} \subseteq Nat

VARIABLES call, answer

vars == <<call, answer>>

-----------------------------------------------------------------------------
UpTo(max) == UNION {[R -> 0..max] : R \in SUBSET {"pod", "cpu"}}

(* A pod counts for one; its containers may request no cpu, or zero.       *)
Requests == {[r \in {"pod"} |-> 1]}
            \cup {[pod |-> 1, cpu |-> c] : c \in 0..MaxRequest}

(* A throttle that was never reconciled, and one whose status is the last  *)
(* reconcile's: used is what the pods counted amount to, spec.threshold    *)
(* may have been edited since.                                             *)
NewThrottles ==
    {[spec |-> t, calculatedAt |-> FALSE, calculated |-> NoAmount,
      used |-> NoAmount, throttled |-> NoAmount] : t \in UpTo(MaxThreshold)}

LastReconcile(t, u) ==
    [spec |-> NoAmount, calculatedAt |-> TRUE, calculated |-> t,
     used |-> u, throttled |-> IsThrottled(t, u, TRUE)]

Reconciled ==
    UNION {{LastReconcile(t, u) : u \in UpTo(MaxUsed)} : t \in UpTo(MaxThreshold)}

\* What the gauges are set to after a reconcile.
RecordedAmounts == UNION {[R -> 0..MaxRecorded] : R \in Mentioned}
Recorded == {LastReconcile(a[1], a[2]) : a \in RecordedAmounts \X RecordedAmounts}

\* What containers request.
Listed == {"cpu", "memory"}
Lists == UNION {[R -> 0..MaxQuantity] : R \in SUBSET Listed}

Terms == [pods : LabelSelectors(PodLabels), namespaces : LabelSelectors(NamespaceLabels)]

Calls ==
    [op : {"check"}, thr : NewThrottles \cup Reconciled, pod : Requests, reserved : UpTo(MaxUsed)]
    \cup [op : {"count"}, init : SeqOf(Lists, MaxContainers),
          containers : SeqOf(Lists, MaxContainers), overhead : Lists]
    \cup [op : {"match"}, selector : SeqOf(Terms, MaxTerms), labels : PodLabels,
          ns : NamespaceLabels]
    \cup [op : {"record"}, before : Recorded, after : Recorded]

Init ==
    /\ call \in Calls
    /\ answer = [given |-> FALSE]

Give(record) ==
    /\ ~answer.given
    /\ answer' = record
    /\ UNCHANGED call

(* What the two CheckThrottledFor methods answer when CheckThrottled calls *)
(* them from PreFilter.                                                    *)
Check ==
    /\ call.op = "check"
    /\ Give([given           |-> TRUE,
             throttle        |-> ThrottleCheck(call.thr, call.pod, call.reserved, FALSE),
             clusterThrottle |-> ClusterThrottleCheck(call.thr, call.pod, call.reserved, FALSE)])

\* What a reconcile counts for a pod.
Count ==
    /\ call.op = "count"
    /\ Give([given |-> TRUE, amount |-> ResourceAmountOfPod(call)])

\* What affectedClusterThrottles and affectedPods ask of a selector.
Ask ==
    /\ call.op = "match"
    /\ Give([given     |-> TRUE,
             pod       |-> ClusterMatchesToPod(call.selector, call.labels, call.ns),
             namespace |-> ClusterMatchesToNamespace(call.selector, call.ns)])

\* Two reconciles record what they have found.
Record ==
    /\ call.op = "record"
    /\ Give([given  |-> TRUE,
             series |-> RecordThrottle(RecordThrottle(NoSeries, call.before), call.after)])

Next == Check \/ Count \/ Ask \/ Record

Spec == Init /\ [][Next]_vars

-----------------------------------------------------------------------------
Answered(op) == call.op = op /\ answer.given

(* PreFilter lets a pod pass a Throttle exactly when every resource the pod*)
(* requests stays within the threshold in effect with what status.used     *)
(* counts and what is reserved: three checks and a cached flag come to     *)
(* that one comparison, at every boundary (CheckThrottledFor).             *)
AdmissionIsExact ==
    Answered("check") =>
        (answer.throttle = "not-throttled"
            <=> Fits(EffectiveThreshold(call.thr), call.thr.used, call.reserved, call.pod))

(* A Throttle and a ClusterThrottle with the same spec and status let the  *)
(* same pods pass, though their second check differs.                      *)
KindsAdmitTheSame ==
    Answered("check") =>
        (answer.throttle = "not-throttled" <=> answer.clusterThrottle = "not-throttled")

(* What runs at one time: an init container alone, or all the containers;  *)
(* the overhead always.                                                    *)
InUse(pod, r) ==
    LET together == TotalAmount(pod.containers, DOMAIN pod.containers)
    IN {At(pod.overhead, r) + At(pod.init[i], r) : i \in DOMAIN pod.init}
       \cup {At(pod.overhead, r) + Quantity(together, r)}

(* A throttle counts for a pod the most it ever uses at one time, of every *)
(* resource, however its containers share it out and whichever of them     *)
(* mention it (PodRequestResourceList); and the pod itself.                *)
CountedIsThePeak ==
    Answered("count") =>
        /\ answer.amount["pod"] = 1
        /\ \A r \in Listed :
            /\ At(answer.amount, r) \in InUse(call, r)
            /\ \A q \in InUse(call, r) : q <= At(answer.amount, r)

(* SetMax and SetMin are bounds of both lists and Sub undoes Add, with     *)
(* resources that only one of them mentions.                               *)
ListLaws ==
    Answered("count") =>
        \A a, b \in {call.overhead} \cup ToSet(call.init) \cup ToSet(call.containers) :
            /\ GreaterOrEqual(SetMax(a, b), a) /\ GreaterOrEqual(SetMax(a, b), b)
            /\ GreaterOrEqual(a, SetMin(a, b)) /\ GreaterOrEqual(b, SetMin(a, b))
            /\ EqualTo(Sub(ListAdd(a, b), b), a)
            /\ GreaterOrEqual(a, b) /\ GreaterOrEqual(b, a) => EqualTo(a, b)

(* A reconcile, which asks for the namespaces first and then for their     *)
(* pods, looks at every pod that a scheduling cycle, which asks for the    *)
(* pod alone, throttles: so the pods that are counted are those that are   *)
(* held back, and an error is met by both.                                 *)
NamespaceFilterLosesNothing ==
    Answered("match") =>
        (answer.pod \in {"yes", "error"} => answer.namespace = "yes")

(* A pod is selected by one term as a whole: its labels by that term's pod *)
(* selector, its namespace by that term's namespace selector.              *)
SelectedByOneTerm ==
    Answered("match") =>
        (answer.pod = "yes" =>
            \E i \in DOMAIN call.selector :
                /\ Matches(call.selector[i].pods, call.labels) = "yes"
                /\ Matches(call.selector[i].namespaces, call.ns) = "yes")

Shown(g, r) == Quantity(answer.series[g], r)

(* After a reconcile the gauges agree with each other as far as rounding   *)
(* lets them, whatever they showed before: no resource of the threshold    *)
(* shows less than its threshold and throttled, or more and not throttled; *)
(* and when the amount used is a whole number of the units shown, it shows *)
(* throttled exactly when it shows the threshold reached.  An amount used  *)
(* that is rounded up shows its threshold and not throttled when it falls  *)
(* short of it by less than a unit.  A resource no pod requests any more is*)
(* left out: its series of used keeps the old amount.                      *)
FlagsAgreeWithAmounts ==
    Answered("record") =>
        \A r \in DOMAIN call.after.calculated \cap DOMAIN call.after.used :
            LET throttled == Shown("throttled", r) = 1
                u == Shown("used", r)
                t == Shown("calculatedThreshold", r)
            IN /\ throttled => u >= t
               /\ ~throttled => u <= t
               /\ call.after.used[r] % Scale(r) = 0 => (throttled <=> u >= t)
=============================================================================
