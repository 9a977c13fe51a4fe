------------------------------ MODULE EnginePool ------------------------------
(***************************************************************************)
(* The cache of database engines of one process (storage/pools.py) and the *)
(* units of work that borrow from it (storage/backend.py).                 *)
(*                                                                         *)
(* An engine is a pool of at most PoolSize connections to one database.    *)
(* What the lock covers is one step; a connection is opened and returned,  *)
(* and a discarded engine disposed of, outside it.  The clock is the set   *)
(* of databases whose engine was handed out longer ago than the idle       *)
(* window.  Every borrower of the server and the worker takes its pin with *)
(* the hand-out; hand-outs without one, by the command line's only thread, *)
(* are left out, and so is the end of the process (dispose_all).           *)
(***************************************************************************)
EXTENDS Naturals, FiniteSets

CONSTANTS
    Databases,     \* database names
    Borrowers,     \* threads, or the units of work one thread nests
    CacheLimit,    \* storage.pool_cache_size
    PoolSize,      \* storage.pool_max_connections
    MaxEngines     \* bound on the engines created

ASSUME EnginePoolAssumption ==
    /\ IsFiniteSet(Databases) /\ IsFiniteSet(Borrowers)
    /\ {CacheLimit, PoolSize} \subseteq Nat \ {0} /\ MaxEngines \in Nat

VARIABLES
    engines,     \* _engines: the cached engines
    older,       \* their order: which was handed out before which
    untouched,   \* the databases past their idle window, by _last_used
    pins,        \* _pins
    borrower,    \* where each borrower stands, and with which engine
    disposed,    \* the engines whose connections were closed
    created      \* how many engines were created

poolVars == <<engines, older, untouched, pins, borrower, disposed, created>>
-----------------------------------------------------------------------------
Engines == Databases \X (1..MaxEngines)
Places  == {"none", "handed", "open", "returned"}
NoLoan  == [at |-> "none", engine |-> <<>>, discarded |-> {}]

EnginePoolTypeOK ==
    /\ engines \subseteq Engines /\ older \subseteq Engines \X Engines /\ untouched \subseteq Databases
    /\ pins \in [Engines -> 0..Cardinality(Borrowers)]
    /\ borrower \in [Borrowers ->
         [at : Places, engine : Engines \cup {<<>>}, discarded : SUBSET Engines]]
    /\ disposed \subseteq Engines /\ created \in 0..MaxEngines

EnginePoolInit ==
    /\ engines = {} /\ older = {} /\ untouched = {} /\ disposed = {} /\ created = 0
    /\ pins = [e \in Engines |-> 0]
    /\ borrower = [b \in Borrowers |-> NoLoan]
-----------------------------------------------------------------------------
(* The sweeps of the cache, under the lock.                                  *)

CheckedOut(e) == Cardinality({b \in Borrowers : borrower[b].at = "open" /\ borrower[b].engine = e})

\* Mutant of Busy: the pins are not looked at, as before they were introduced.
BusyIfConnected(e) == CheckedOut(e) > 0

\* _busy.
Busy(e) == pins[e] > 0 \/ CheckedOut(e) > 0

\* _expire_idle: the engines it keeps.
Unexpired == {e \in engines : e[1] \notin untouched \/ Busy(e)}

\* The engine for a database among those, or one to be created.
HandedOut(db) ==
    LET cached == {e \in Unexpired : e[1] = db}
    IN  IF cached = {} THEN {<<db, created + 1>>} ELSE cached

\* _evict_unused_over_cap: of the unused engines the oldest go, until the cache is
\* within its cap or none is left.
Evicted(gone, unused, size) ==
    /\ gone \subseteq unused /\ \A e \in gone, f \in unused \ gone : <<e, f>> \in older
    /\ IF size <= CacheLimit THEN gone = {}
       ELSE /\ CacheLimit <= size - Cardinality(gone)
            /\ gone = unused \/ size - Cardinality(gone) = CacheLimit
-----------------------------------------------------------------------------
\* engine_for(pin=True): the engine is pinned before the lock is released.
EngineFor(b, db) ==
    /\ borrower[b].at = "none" /\ borrower[b].discarded = {}
    /\ \E e \in HandedOut(db) : \E gone \in SUBSET (Unexpired \ {e}) :
         /\ Evicted(gone, {c \in Unexpired \ {e} : ~Busy(c)}, Cardinality(Unexpired \cup {e}))
         /\ engines' = (Unexpired \cup {e}) \ gone
         /\ older' = (older \cap ((engines' \ {e}) \X (engines' \ {e})))
                      \cup ((engines' \ {e}) \X {e})
         /\ created < MaxEngines \/ e \in engines
         /\ created' = IF e \in engines THEN created ELSE created + 1
         /\ untouched' = (untouched \cap {c[1] : c \in engines'}) \ {db}
         /\ pins' = [pins EXCEPT ![e] = @ + 1]
         /\ borrower' = [borrower EXCEPT ![b] =
              [at |-> "handed", engine |-> e, discarded |-> engines \ engines']]
    /\ UNCHANGED disposed

\* close_idle, by a worker between two passes.
CloseIdle(b) ==
    /\ borrower[b].at = "none" /\ borrower[b].discarded = {}
    /\ engines' = Unexpired /\ engines' # engines
    /\ older' = older \cap (engines' \X engines')
    /\ untouched' = untouched \cap {c[1] : c \in engines'}
    /\ borrower' = [borrower EXCEPT ![b].discarded = engines \ engines']
    /\ UNCHANGED <<pins, disposed, created>>

\* dispose, after the lock and before the caller has its engine.
Dispose(b) ==
    \E e \in borrower[b].discarded :
      /\ borrower' = [borrower EXCEPT ![b].discarded = @ \ {e}]
      /\ disposed' = disposed \cup {e}
      /\ UNCHANGED <<engines, older, untouched, pins, created>>

\* UnitOfWork.__enter__: a connection of the engine, or none within its timeout.
Opens(b) ==
    /\ borrower[b].at = "handed" /\ borrower[b].discarded = {}
    /\ \/ /\ CheckedOut(borrower[b].engine) < PoolSize
          /\ borrower' = [borrower EXCEPT ![b].at = "open"]
       \/ borrower' = [borrower EXCEPT ![b].at = "returned"]
    /\ UNCHANGED <<engines, older, untouched, pins, disposed, created>>

\* UnitOfWork.__exit__ returns the connection first ...
Returns(b) ==
    /\ borrower[b].at = "open"
    /\ borrower' = [borrower EXCEPT ![b].at = "returned"]
    /\ UNCHANGED <<engines, older, untouched, pins, disposed, created>>

\* ... and drops the pin after it.
Unpin(b) ==
    /\ borrower[b].at = "returned"
    /\ pins' = [pins EXCEPT ![borrower[b].engine] = IF @ = 0 THEN 0 ELSE @ - 1]
    /\ borrower' = [borrower EXCEPT ![b] = NoLoan]
    /\ UNCHANGED <<engines, older, untouched, disposed, created>>

\* The idle window is measured from the hand-out, not from the return.
IdleWindowPasses(db) ==
    /\ db \in {e[1] : e \in engines} \ untouched
    /\ untouched' = untouched \cup {db}
    /\ UNCHANGED <<engines, older, pins, borrower, disposed, created>>
-----------------------------------------------------------------------------
EnginePoolNext ==
    \/ \E b \in Borrowers :
         \/ \E db \in Databases : EngineFor(b, db)
         \/ CloseIdle(b) \/ Dispose(b) \/ Opens(b) \/ Returns(b) \/ Unpin(b)
    \/ \E db \in Databases : IdleWindowPasses(db)

EnginePoolSpec == EnginePoolInit /\ [][EnginePoolNext]_poolVars
-----------------------------------------------------------------------------
(* "Evicting a busy engine would detach its connections and take them outside *)
(* every count": an engine that is handed out, in whichever state its         *)
(* borrower left it, is the cached one of its database and not disposed of,   *)
(* so no connection is outside the count; and the cache outgrows its cap only *)
(* as far as there are borrowers at once (_busy, pin, _evict_unused_over_cap).*)
EnginesStayCounted ==
    /\ \A b \in Borrowers :
         borrower[b].at # "none" =>
           borrower[b].engine \in engines /\ borrower[b].engine \notin disposed
    /\ \A e, f \in engines : e[1] = f[1] => e = f
    /\ Cardinality(engines) <= CacheLimit \/ Cardinality(engines) <= Cardinality(Borrowers)
=============================================================================
