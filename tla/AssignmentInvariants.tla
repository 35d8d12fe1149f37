------------------------- MODULE AssignmentInvariants ------------------------
(***************************************************************************)
(* Inductive invariants of ThrottleAssignment: why every pod that holds    *)
(* its place is counted or reserved by every throttle that selects it, why *)
(* no reservation is left behind (AssignmentInv, of a controller that no   *)
(* change has concerned yet), and why the statuses count the live pods     *)
(* once all is handled (CountInv).                                         *)
(***************************************************************************)
EXTENDS ThrottleAssignment

-----------------------------------------------------------------------------
(* What the handlers know of one pod, and the notices they are still to    *)
(* get, end with what the lister has; a pod is deleted as it was last.     *)
NoticeFollows(listed, known, pending) ==
    /\ listed = IF pending = <<>> THEN known ELSE pending[Len(pending)]
    /\ \A k \in DOMAIN pending : pending[k].deleted =>
            pending[k] = [(IF k = 1 THEN known ELSE pending[k - 1]) EXCEPT !.deleted = TRUE]

NoticesFollow ==
    \A c \in Controllers, p \in Pods :
        NoticeFollows(podLister[p], told[c][p], notices[c][p])

\* A throttle that is being reconciled is not handed out again.
BusyIsProcessing == \A t \in Throttles : worker[t].busy => t \in queue.processing

\* Every change that concerns a controller is counted, but for a pod created again.
ChangesCounted == changes = 0 => \A d \in disturbed : d[2] = "recreatePod"

HandlingInv == NoticesFollow /\ BusyIsProcessing /\ ChangesCounted

\* A reconcile of these is still to begin.
ToBegin == queue.dirty \cup queue.waiting

-----------------------------------------------------------------------------
\* What the selectors say as long as nobody has changed them.
FirstAnswer(t, labels) ==
    IF Kind[t] = "ClusterThrottle"
    THEN ClusterMatchesToPod(InitialSelector[t], labels, InitialNamespace)
    ELSE MatchesToPod(InitialSelector[t], labels)

Selects(t, labels) == FirstAnswer(t, labels) = "yes"

(* The throttles of c are as they were, so their updates meet no conflict. *)
AsAtFirst(c) ==
    /\ \A t \in Of(c) :
        /\ thr[t].exists /\ thr[t].responsible /\ thr[t].selector = InitialSelector[t]
        /\ thr[t].rv = 0 /\ worker[t].rv = 0
    /\ c = "ClusterThrottle" => namespace = InitialNamespace

(* A pod the informers speak of: nothing in it is ahead of the lister, and *)
(* its labels are the first ones until it is bound.                        *)
Seen(pod, last, listed, first) ==
    /\ pod.stage = "pending" => pod.labels = first
    /\ listed.stage = "pending" => pod.stage = "pending"
    /\ pod.deleted => last.deleted

(* What the lister and the handlers have of one pod follows what the API   *)
(* server has: the lister is behind it, and after a deletion comes nothing.*)
PodFollows(last, listed, known, pending, first) ==
    /\ last.uid = 1
    /\ last.stage = "pending" => last.labels = first /\ listed.stage = "pending"
    /\ listed.stage = "finished" => last.stage = "finished"
    /\ Seen(listed, last, listed, first)
    /\ Seen(known, last, listed, first)
    /\ \A k \in DOMAIN pending : Seen(pending[k], last, listed, first)
    /\ listed.deleted => listed = last
    /\ known.deleted => pending = <<>>
    /\ \A k \in DOMAIN pending : pending[k].deleted => k = Len(pending)

PodsFollow(c) ==
    \A p \in Pods :
        PodFollows(apiPod[p], podLister[p], told[c][p], notices[c][p], InitialLabels[p])

(* A pod in a cycle is pending, and the cycle has its first labels.        *)
CyclesFollow ==
    \A p \in Pods, i \in Incarnations :
        cycle[p][i].pc # "idle" =>
            i = 1 /\ apiPod[p].stage = "pending" /\ cycle[p][i].labels = InitialLabels[p]

(* A reconcile counts and un-reserves pods that the lister had bound, the  *)
(* terminated ones for good.                                               *)
ListsFollow(c) ==
    \A t \in Of(c), p \in Pods :
        /\ p \in worker[t].live \cup worker[t].terminated => podLister[p].stage # "pending"
        /\ p \in worker[t].terminated => podLister[p].stage = "finished"

\* With whatever labels the handlers know of the pod or are still to be told of it.
SelectedThroughout(c, t, p) ==
    /\ Selects(t, told[c][p].labels)
    /\ \A k \in DOMAIN notices[c][p] : Selects(t, notices[c][p][k].labels)

(* Until the lister has a pod bound it stays reserved.  From then on it is *)
(* counted or reserved by the throttles that have selected it since the    *)
(* handlers were told last, and by what a reconcile leaves when it is done.*)
KeptAccounted(c) ==
    \A t \in Of(c), p \in Pods : Holds(p) =>
        /\ podLister[p].stage = "pending" /\ Selects(t, InitialLabels[p]) => p \in reserved[t]
        /\ SelectedThroughout(c, t, p) =>
            /\ p \in counted[t] \cup reserved[t]
            /\ worker[t].busy => p \in worker[t].live \cup reserved[t]

(* A pod is reserved by throttles that select it as the handlers know it,  *)
(* and somebody is still to remove it: its cycle while it is pending; then *)
(* the handlers, a reconcile that is to begin or has listed it, or nobody  *)
(* (Lost).                                                                 *)
DrainsFollow(c) ==
    \A t \in Of(c), p \in Pods : p \in reserved[t] =>
        /\ Selects(t, told[c][p].labels)
        /\ apiPod[p].stage = "pending" => cycle[p][1].pc \in {"reserved", "failed"}
        /\ told[c][p].stage # "pending" =>
            /\ ~told[c][p].deleted
            /\ \/ notices[c][p] # <<>> \/ apiPod[p].deleted
               \/ t \in ToBegin
               \/ worker[t].busy /\ p \in worker[t].live \cup worker[t].terminated
               \/ p \in Lost(c)

AssignmentInv ==
    \A c \in Controllers : Undisturbed(c) =>
        /\ AsAtFirst(c)
        /\ PodsFollow(c)
        /\ CyclesFollow
        /\ ListsFollow(c)
        /\ KeptAccounted(c)
        /\ DrainsFollow(c)

-----------------------------------------------------------------------------
\* A pod that a status of t should count.
CountsIn(t, pod) == IsLive(pod) /\ Answer(t, pod.labels) = "yes"

\* No notice that is still to come changes whether t counts the pod.
Settled(c, t, p) ==
    \A k \in DOMAIN notices[c][p] : CountsIn(t, notices[c][p][k]) <=> CountsIn(t, told[c][p])

(* Unless a reconcile is to begin, the status counts the pods it should,   *)
(* or the reconcile at work has listed them and meets no conflict; but for *)
(* the pods whose handlers are still to begin one.                         *)
CountsFollow(c) ==
    \A t \in Responsible(c) : t \notin thrNotices \cup ToBegin =>
        /\ worker[t].busy => worker[t].rv = thr[t].rv
        /\ \A p \in Pods : Settled(c, t, p) =>
            (CountsIn(t, told[c][p])
                <=> p \in IF worker[t].busy THEN worker[t].live ELSE counted[t])

CountInv ==
    \A c \in Controllers : Heard(c) =>
        /\ \A t \in Of(c) : IsValid(thr[t].selector)
        /\ CountsFollow(c)
==============================================================================
