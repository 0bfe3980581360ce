-------------------------------- MODULE SkewHeap -------------------------------
(***************************************************************************)
(* The run pool of the stride scheduler as it is stored: a skew heap       *)
(* (libs/skew_heap.h).  A heap is <<>> or <<p, left, right>>; the pointers  *)
(* to parents, which only the removal of an inner node would follow, are    *)
(* left out: the scheduler removes the root.                               *)
(***************************************************************************)
EXTENDS Stride, Sequences

VARIABLE heap

heapvars == <<vars, heap>>

Node(p) == <<p, <<>>, <<>>>>

(* The right subtree of the smaller root is merged with the other heap and *)
(* becomes the left one; s are the strides at the time.                    *)
RECURSIVE skew_heap_merge_RightFirst(_, _, _)
skew_heap_merge_RightFirst(s, a, b) ==
    IF a = <<>> THEN b
    ELSE IF b = <<>> THEN a
    ELSE IF proc_stride_comp_f(s[a[1]], s[b[1]]) # -1
         THEN <<a[1], skew_heap_merge_RightFirst(s, a[3], b), a[2]>>
         ELSE <<b[1], skew_heap_merge_RightFirst(s, a, b[3]), b[2]>>

RECURSIVE skew_heap_merge(_, _, _)
skew_heap_merge(s, a, b) ==
    IF a = <<>> THEN b
    ELSE IF b = <<>> THEN a
    ELSE IF proc_stride_comp_f(s[a[1]], s[b[1]]) = -1
         THEN <<a[1], skew_heap_merge(s, a[3], b), a[2]>>
         ELSE <<b[1], skew_heap_merge(s, a, b[3]), b[2]>>

skew_heap_insert(s, h, p) == skew_heap_merge(s, h, Node(p))
skew_heap_remove(s, h) == skew_heap_merge(s, h[2], h[3])

-----------------------------------------------------------------------------
HeapInit == Init /\ \E p \in pool : heap = Node(p)

(* schedule() with the processes S in the heap h.  pick_next moves the      *)
(* stride of the root before it is removed, which no comparison sees.      *)
heap_schedule(S, h) ==
    \/ h = <<>> /\ run_idle /\ UNCHANGED heap
    \/ h # <<>> /\ stride_pick_next(S, h[1]) /\ heap' = skew_heap_remove(stride, h)

heap_yield ==
    /\ heap_schedule(Members, IF current = idleproc THEN heap
                              ELSE skew_heap_insert(stride, heap, current))
    /\ UNCHANGED asleep

heap_wait == current # idleproc /\ heap_schedule(pool, heap) /\ asleep' = asleep \cup {current}
heap_exit == current # idleproc /\ heap_schedule(pool, heap) /\ UNCHANGED asleep

heap_enqueue(p) == heap' = skew_heap_insert(stride', heap, p)
heap_wakeup(p) == wakeup_proc(p) /\ heap_enqueue(p)
heap_fork(p) == do_fork(p) /\ heap_enqueue(p)
heap_set_priority(n) == lab6_set_priority(n) /\ UNCHANGED heap

HeapNext ==
    \/ heap_yield \/ heap_wait \/ heap_exit
    \/ \E p \in Proc : heap_wakeup(p) \/ heap_fork(p)
    \/ \E n \in Priority : heap_set_priority(n)

(* A turn ends some time: the clock ticks and slices are finite.           *)
HeapSpec == HeapInit /\ [][HeapNext]_heapvars /\ WF_heapvars(heap_yield)

-----------------------------------------------------------------------------
(* The root of the heap is one whose stride no other is before, whenever    *)
(* that can be said of strides that lie together: so the heap does what    *)
(* Stride says of a set.                                                   *)
StrideSpec == Spec

(* The comment of stride_pick_next: it picks the process with the minimum   *)
(* value of stride.                                                        *)
RootIsMinimum == heap # <<>> => Least(pool, heap[1])

(* Strides that a joiner has parted come together again once nobody joins   *)
(* for long enough, although the comparison is no order until then: those  *)
(* that are behind are not passed over.                                    *)
Reunite ==
    <>[][\A p \in Proc : ~heap_fork(p) /\ ~heap_wakeup(p)]_heapvars => <>[]Together(Members)

(* Once no process is born any more and no sleeper parts the strides,       *)
(* everybody who is in the pool gets the CPU, whatever its priority, and   *)
(* however often others sleep and wake.                                    *)
NobodyStarves ==
    <>[][\A p \in Proc : ~heap_fork(p)]_heapvars /\ <>[]Together(Members)
      => \A p \in Proc : p \in pool ~> current = p
=============================================================================
