------------------------------ MODULE Signals -------------------------------
(***************************************************************************)
(* The reactive runtime under the pages: Svelte's signals, as they stand   *)
(* in apps/frontend/.netlify/server/chunks/root.js.  A source is set;      *)
(* mark_reactions marks what depends on it; a microtask flushes the batch: *)
(* blocks are updated on the way down the effect tree, user effects after. *)
(* Deriveds are evaluated when read, and only connected ones are marked.   *)
(*                                                                         *)
(* A reaction's function is a chain of reads, joined by `&&': it reads its *)
(* signals in turn, stops at the first that is not as wanted, and so       *)
(* depends on no later one.  A user effect whose chain holds may write a   *)
(* source; a block shows its branch while its chain holds (the `if' block  *)
(* itself is not in this bundle).  The app has no async deriveds, forks or *)
(* boundaries pending, so a batch is never deferred, and batch_values is   *)
(* null.  Write versions are only ever compared between a reaction and     *)
(* what it reads: the model keeps the outcome of that comparison.          *)
(***************************************************************************)
EXTENDS Integers, Sequences, SequencesExt, FiniteSets, FiniteSetsExt

CONSTANTS
  Sources, Deriveds, Effects, Blocks,  \* the signals and reactions of a page
  Order,     \* the effects and blocks of the tree, in document order
  Start,     \* the values a source may have, the first being the initial one
  Chain,     \* the reads of each reaction: <<signal, the value wanted>>
  Writes,    \* what an effect whose chain holds writes: <<source, value>> or << >>
  Outside,   \* the deriveds that handlers read
  Home,      \* the block whose branch an effect or block is in, or Root
  Root,
  MaxSets,   \* sources set by one handler before the microtask runs
  MaxLinks   \* a reaction more often than this among those of a signal: no more sets

Signal == Sources \cup Deriveds
Reactions == Deriveds \cup Effects \cup Blocks

\* A handler runs without a reactive context.
Nobody == "nobody"

VARIABLES
  g,     \* the graph, as the functions of the runtime pass it on:
         \*   v         the value of each signal
         \*   newer     <<s, r>>: r reads s, and the wv of s is above that of r
         \*   deps      the signals a reaction depends on, in the order read
         \*   links     how often a reaction is among the reactions of a signal
         \*   st        clean, maybe (MAYBE_DIRTY) or dirty
         \*   conn, marked, ran   deriveds that are CONNECTED, WAS_MARKED, have run
         \*   alive     effects and blocks that exist
         \*   open      blocks whose branch exists
         \*   unclean   branches without the CLEAN flag
         \*   batch     a batch is waiting to be flushed; roots: with a root scheduled
         \*   queue, collecting, eager    effects collected by a flush under way
         \*   seen      history: what an effect or block last made of its chain
         \*   glitched  history: those that once made of it what the sources did not say
  sets   \* sources set since the last flush

vars == <<g, sets>>

RECURSIVE Get(_, _, _, _), Dirty(_, _, _), DirtyFrom(_, _, _, _), UpdateDerived(_, _, _),
          Evaluate(_, _, _, _, _), UpdateReaction(_, _, _), RemoveReactions(_, _, _, _),
          Reconnect(_, _), Mark(_, _, _, _), Climb(_, _), UpdateEffect(_, _), Walk(_, _),
          Invalidate(_, _, _, _), Process(_, _), Destroy(_, _, _)

Connected(h, r) == r \in h.conn \cup Effects \cup Blocks
ReactionsOf(h, s) == {r \in Reactions : h.links[s][r] > 0}
Children(b) == SelectSeq(Order, LAMBDA r : Home[r] = b)

\* What the chain of r comes to, from the sources alone.
RECURSIVE Holds(_, _)
Holds(h, r) ==
  \A i \in DOMAIN Chain[r] :
    LET s == Chain[r][i][1] IN
    (IF s \in Sources THEN h.v[s] ELSE Holds(h, s)) = Chain[r][i][2]

-----------------------------------------------------------------------------
(* Marking and scheduling.                                                 *)

\* Batch.schedule: the branches above lose their CLEAN flag, up to one that
\* has lost it; then the root is scheduled.
Climb(h, b) ==
  IF b \in h.unclean THEN h
  ELSE LET up == [h EXCEPT !.unclean = @ \cup {b}] IN
       IF b = Root THEN [up EXCEPT !.roots = TRUE] ELSE Climb(up, Home[b])

Schedule(h, e) == Climb([h EXCEPT !.batch = TRUE], Home[e])

\* A derived is remembered as marked only if it is connected, and not by a
\* write from within a running effect.
Remembers(h, d, inside) == d \in h.conn /\ ~inside

\* mark_reactions: what depends on s is dirty, what depends on that may be.
Mark(h, s, status, inside) ==
  FoldSeq(LAMBDA r, k :
            LET notDirty == k.st[r] # "dirty"
                m == IF notDirty THEN [k EXCEPT !.st[r] = status] ELSE k IN
            IF r \in Deriveds
              THEN IF r \in m.marked THEN m
                   ELSE Mark([m EXCEPT !.marked = IF Remembers(m, r, inside) THEN @ \cup {r} ELSE @],
                             r, "maybe", inside)
              ELSE IF ~notDirty THEN m
                   ELSE Schedule([m EXCEPT !.eager = IF r \in Blocks THEN @ \cup {r} ELSE @], r),
          h, SetToSeq(ReactionsOf(h, s)))

\* A new write version for s: nothing that s reads is newer than it, and it
\* is newer than all that read it.
Written(h, s) ==
  [h EXCEPT !.newer = {p \in @ : p[2] # s}
                        \cup {<<s, r>> : r \in {q \in Reactions : \E i \in DOMAIN Chain[q] : Chain[q][i][1] = s}}]

\* The batch notes the change, which is seen at once.
Capture(h, s, value) == [h EXCEPT !.v[s] = value, !.batch = TRUE]

\* internal_set.
SetSource(h, s, value, inside) ==
  IF h.v[s] = value THEN h
  ELSE Mark(Capture(Written(h, s), s, value), s, "dirty", inside)

\* schedule_possible_effect_self_invalidation, for a source e wrote.
Invalidate(h, s, e, root) ==
  FoldSeq(LAMBDA r, k :
            IF r \in Deriveds THEN Invalidate(k, r, e, FALSE)
            ELSE IF r # e THEN k
            ELSE Schedule([k EXCEPT !.st[r] = IF root THEN "dirty" ELSE IF @ = "clean" THEN "maybe" ELSE @], r),
          h, SetToSeq(ReactionsOf(h, s)))

-----------------------------------------------------------------------------
(* Reading.                                                                *)

\* remove_reaction for the dependencies of r from the i-th on: a derived that
\* nobody reads any more, not even the reaction now running, is disconnected.
RemoveReactions(h, r, i, news) ==
  FoldLeft(LAMBDA k, s :
             LET m == [k EXCEPT !.links[s][r] = IF @ > 0 THEN @ - 1 ELSE 0] IN
             IF s \in Sources \/ ReactionsOf(m, s) # {} \/ s \in news THEN m
             ELSE RemoveReactions(
                    [m EXCEPT !.conn = @ \ {s}, !.marked = @ \ {s},
                              !.st[s] = IF s \notin m.ran THEN @
                                        ELSE IF m.deps[s] = << >> THEN "clean" ELSE "maybe"],
                    s, 1, news),
           h, SubSeq(h.deps[r], i, Len(h.deps[r])))

\* Faulty variant: a derived read again does not subscribe to what it reads.
ReconnectAlone(h, d) == [h EXCEPT !.conn = @ \cup {d}]

Reconnect(h, d) ==
  FoldLeft(LAMBDA k, s :
             LET m == [k EXCEPT !.links[s][d] = @ + 1] IN
             IF s \in Deriveds /\ s \notin m.conn THEN Reconnect(m, s) ELSE m,
           [h EXCEPT !.conn = @ \cup {d}], h.deps[d])

\* Faulty variant: a derived that has a value keeps it.
RefreshOnce(h, s, connect, updating) ==
  IF s \in h.ran THEN h ELSE UpdateDerived(IF connect THEN [h EXCEPT !.conn = @ \cup {s}] ELSE h, s, updating)

\* A derived found dirty is evaluated, as connected if it is about to be.
Evaluated(d, s, connect, updating) ==
  IF d.is THEN UpdateDerived(IF connect THEN [d.g EXCEPT !.conn = @ \cup {s}] ELSE d.g, s, updating)
  ELSE d.g

Refresh(h, s, connect, updating) == Evaluated(Dirty(h, s, updating), s, connect, updating)

Rejoin(h, s, again) == IF again THEN Reconnect(h, s) ELSE h

\* get, by a reader (or by no reaction), while an effect is updating or not.
Get(h, s, reader, updating) ==
  LET connect == s \notin h.conn /\ reader # Nobody /\ (updating \/ reader \in h.conn) IN
  IF s \in Sources THEN h
  ELSE Rejoin(Refresh(h, s, connect, updating), s, connect /\ s \in h.ran)

\* Faulty variant: a reaction that may be dirty is taken for clean.
NewerThan(h, s, r) == FALSE

\* Has s been written since r last changed?
IsNewer(h, s, r) == <<s, r>> \in h.newer

\* is_dirty: a dependency that may have changed is brought up to date first.
DirtyAfter(h, s, r, i, updating) ==
  IF IsNewer(h, s, r) THEN [g |-> h, is |-> TRUE] ELSE DirtyFrom(h, r, i + 1, updating)

DirtyFrom(h, r, i, updating) ==
  IF i > Len(h.deps[r])
    THEN [g |-> IF Connected(h, r) THEN [h EXCEPT !.st[r] = "clean"] ELSE h, is |-> FALSE]
    ELSE LET s == h.deps[r][i] IN
         DirtyAfter(IF s \in Deriveds THEN Evaluated(Dirty(h, s, updating), s, FALSE, updating) ELSE h,
                    s, r, i, updating)

Dirty(h, r, updating) ==
  LET k == [h EXCEPT !.marked = @ \ {r}] IN
  IF r \in Sources THEN [g |-> h, is |-> FALSE]
  ELSE IF h.st[r] = "dirty" THEN [g |-> h, is |-> TRUE]
  ELSE IF h.st[r] = "maybe" THEN DirtyFrom(k, r, 1, updating) ELSE [g |-> k, is |-> FALSE]

\* update_derived: the version moves only if the value does.
TakeValue(h, d, u) ==
  IF d \in h.ran /\ h.v[d] = u.res THEN u.g ELSE [Written(u.g, d) EXCEPT !.v[d] = u.res]

Cleaned(h, d) == [h EXCEPT !.st[d] = IF d \in h.conn \/ h.deps[d] = << >> THEN "clean" ELSE "maybe"]

UpdateDerived(h, d, updating) ==
  Cleaned(TakeValue(h, d, UpdateReaction([h EXCEPT !.marked = @ \ {d}], d, updating)), d)

-----------------------------------------------------------------------------
(* Running.                                                                *)

\* A new effect of a branch waits for the flush; a block runs at once.
Create(h, r) ==
  LET k == [h EXCEPT !.alive = @ \cup {r}, !.st[r] = "dirty", !.deps[r] = << >>] IN
  IF r \in Blocks THEN UpdateEffect(k, r)
  ELSE IF k.collecting THEN [k EXCEPT !.queue = Append(@, r)]
  ELSE Schedule(k, r)

\* destroy_effect for all of a block's branch.
Destroy(h, b, news) ==
  FoldLeft(LAMBDA k, r :
             LET m == IF r \in k.open THEN Destroy(k, r, news) ELSE k IN
             [RemoveReactions(m, r, 1, news) EXCEPT !.alive = @ \ {r}, !.deps[r] = << >>],
           [h EXCEPT !.open = @ \ {b}, !.unclean = @ \ {b}], SelectSeq(Children(b), LAMBDA r : r \in h.alive))

\* What the function of r does once its chain has come to res.
Body(h, r, res, news) ==
  IF r \in Blocks
    THEN IF res /\ r \notin h.open
           THEN FoldLeft(Create, [h EXCEPT !.open = @ \cup {r}], Children(r))
         ELSE IF ~res /\ r \in h.open THEN Destroy(h, r, news) ELSE h
  ELSE IF r \in Effects /\ res /\ Writes[r] # << >>
    THEN SetSource(h, Writes[r][1], Writes[r][2], TRUE)
  ELSE h

\* The function of r, from its i-th read on.
EvaluateOn(h, r, i, reads, updating) ==
  LET s == Chain[r][i][1]
      now == IF Contains(reads, s) THEN reads ELSE Append(reads, s) IN
  IF h.v[s] = Chain[r][i][2] THEN Evaluate(h, r, i + 1, now, updating)
  ELSE [g |-> h, res |-> FALSE, reads |-> now]

Evaluate(h, r, i, reads, updating) ==
  IF i > Len(Chain[r]) THEN [g |-> h, res |-> TRUE, reads |-> reads]
  ELSE EvaluateOn(Get(h, Chain[r][i][1], r, updating), r, i, reads, updating)

\* How many reads are as last time.
Common(old, reads) ==
  CHOOSE n \in 0 .. Len(old) :
    /\ n <= Len(reads) /\ SubSeq(old, 1, n) = SubSeq(reads, 1, n)
    /\ n = Len(old) \/ n = Len(reads) \/ old[n + 1] # reads[n + 1]

\* r depends on what it has read, and is called again if it has written it.
DependOn(h, r, reads, news) ==
  [h EXCEPT !.deps[r] = reads, !.ran = IF r \in Deriveds THEN @ \cup {r} ELSE @,
            !.links = IF Connected(h, r)
                        THEN [s \in Signal |-> [h.links[s] EXCEPT ![r] = IF s \in news THEN @ + 1 ELSE @]]
                        ELSE @]

CallAgain(h, r, wrote) ==
  IF wrote /\ h.st[r] = "clean" THEN Invalidate(h, Writes[r][1], r, TRUE) ELSE h

Rewire(e, r, same) ==
  LET news == {e.reads[i] : i \in same + 1 .. Len(e.reads)}
      wrote == r \in Effects /\ e.res /\ Writes[r] # << >> /\ e.g.v[Writes[r][1]] # Writes[r][2] IN
  [g |-> CallAgain(DependOn(RemoveReactions(Body(e.g, r, e.res, news), r, same + 1, news), r, e.reads, news),
                   r, wrote),
   res |-> e.res]

\* update_reaction: run the function, then depend on what it has read, from
\* the first read on that is not as last time.
RewireFrom(e, r, old) == Rewire(e, r, Common(old, e.reads))

UpdateReaction(h, r, updating) == RewireFrom(Evaluate(h, r, 1, << >>, updating), r, h.deps[r])

\* update_effect.
Effected(u, e, right) ==
  [u.g EXCEPT !.newer = {p \in @ : p[2] # e}, !.seen[e] = u.res,
              !.glitched = IF u.res = right THEN @ ELSE @ \cup {e}]

UpdateEffect(h, e) ==
  Effected(UpdateReaction([h EXCEPT !.st[e] = "clean"], e, TRUE), e, Holds(h, e))

-----------------------------------------------------------------------------
(* Flushing.                                                               *)

\* Batch.#traverse, below one branch that is not clean.
Updated(d, r) == IF d.is THEN UpdateEffect(d.g, r) ELSE d.g

Below(h, r) == IF r \in h.open \cap h.unclean THEN Walk(h, r) ELSE h

Walk(h, b) ==
  FoldLeft(LAMBDA k, r :
             IF r \notin k.alive THEN k
             ELSE IF r \in Effects THEN [k EXCEPT !.queue = Append(@, r)]
             ELSE Below(Updated(Dirty(k, r, FALSE), r), r),
           [h EXCEPT !.unclean = @ \ {b}], Children(b))

\* flush_queued_effects: the blocks an effect's writes reach are updated
\* right after it.
FlushEager(h) ==
  FoldLeft(LAMBDA k, r : IF r \in k.alive THEN UpdateEffect(k, r) ELSE k,
           h, SelectSeq(Order, LAMBDA r : r \in h.eager))

RunQueued(d, e) ==
  IF d.is THEN FlushEager(UpdateEffect([d.g EXCEPT !.eager = {}], e)) ELSE d.g

FlushQueued(h) ==
  FoldLeft(LAMBDA k, e : IF e \in k.alive THEN RunQueued(Dirty(k, e, FALSE), e) ELSE k,
           [h EXCEPT !.queue = << >>], h.queue)

\* Batch.#process, again for what the effects have set, and again; the code
\* gives up after a thousand times.
Walked(h) == IF h.roots THEN Walk([h EXCEPT !.roots = FALSE], Root) ELSE h

ProcessAgain(h, times) ==
  IF h.batch /\ times > 0 THEN Process(h, times - 1) ELSE [h EXCEPT !.eager = {}]

Process(h, times) ==
  ProcessAgain(FlushQueued([Walked([h EXCEPT !.batch = FALSE, !.collecting = TRUE])
                              EXCEPT !.collecting = FALSE]), times)

Empty ==
  [v |-> [s \in Signal |-> IF s \in Sources THEN Start[s][1] ELSE FALSE],
   newer |-> {},
   deps |-> [r \in Reactions |-> << >>],
   links |-> [s \in Signal |-> [r \in Reactions |-> 0]],
   st |-> [r \in Reactions |-> "dirty"],
   conn |-> {}, marked |-> {}, ran |-> {}, alive |-> {}, open |-> {}, unclean |-> {},
   batch |-> FALSE, roots |-> FALSE, queue |-> << >>, collecting |-> FALSE, eager |-> {},
   seen |-> [e \in Effects \cup Blocks |-> FALSE], glitched |-> {}]

MaxFlushes == 3

\* The page is mounted, and its first effects flushed.
Init ==
  /\ g = Process(FoldLeft(Create, Empty, Children(Root)), MaxFlushes)
  /\ sets = 0

\* A handler sets a source.
Set(s, value) ==
  /\ sets < MaxSets
  /\ \A x \in Signal, r \in Reactions : g.links[x][r] <= MaxLinks
  /\ g.v[s] # value
  /\ g' = [SetSource(g, s, value, FALSE) EXCEPT !.eager = {}]
  /\ sets' = sets + 1

\* A handler reads a derived, as applyRound reads `bound'.
Read(d) ==
  /\ g' = Get(g, d, Nobody, FALSE)
  /\ g' # g
  /\ UNCHANGED sets

\* A new batch queues a microtask, which is also what flushes it.
MicroTask == g.batch

Flush ==
  /\ MicroTask
  /\ g' = Process(g, MaxFlushes)
  /\ sets' = 0

Next ==
  \/ \E s \in Sources : \E i \in DOMAIN Start[s] : Set(s, Start[s][i])
  \/ \E d \in Outside : Read(d)
  \/ Flush

Spec == Init /\ [][Next]_vars

-----------------------------------------------------------------------------
(* Properties.                                                             *)

\* No wakeup is lost: when nothing waits to be flushed, every effect has run
\* with what the sources say now, and the branches shown are those that
\* should be, although dependencies come and go with what was read.
EffectsCurrent ==
  ~g.batch => \A r \in g.alive : /\ g.seen[r] = Holds(g, r)
                                 /\ r \in Blocks => (r \in g.open <=> Holds(g, r))

\* No effect ever runs on a mixture of old and new values.
NoGlitch == g.glitched = {}

\* A connected derived that is taken for clean holds what the sources say,
\* between the sets of one handler as well as after.
CleanIsCurrent ==
  \A d \in g.conn : g.st[d] = "clean" => g.v[d] = Holds(g, d)
=============================================================================
