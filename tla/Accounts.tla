------------------------------ MODULE Accounts ------------------------------
(***************************************************************************)
(* Sessions and accounts in front of the storefront: which cart a request  *)
(* works on (core/views.py), log-in and log-out (accounts/views.py) and    *)
(* what a session remembers (core/checkout_access.py,                      *)
(* core/table_session.py).                                                 *)
(*                                                                         *)
(* SESSION_ENGINE is cached_db: a session is a row of the database with a  *)
(* copy in Redis.  A request works on a copy of its own.  It is loaded     *)
(* from the cache or else from the row, and the cache is filled afterwards;*)
(* it is written back as a whole with the response, if it was changed and  *)
(* if the row is still there, first to the row and then to the cache.  A   *)
(* call of the cache that fails is ignored (IGNORE_EXCEPTIONS).  The       *)
(* browser learns of a new session key with the response.  A cart is named *)
(* after what owns it, a user or a session key.                            *)
(*                                                                         *)
(* Operators marked "Defect" are faulty variants of the definition below   *)
(* them, kept to show that a property notices the fault.                   *)
(***************************************************************************)
EXTENDS Storefront, Sequences

LOCAL INSTANCE SequencesExt

CONSTANTS
    Browsers,    \* a browser, and the address its posts come from
    Users,
    StaffUsers,  \* the users with is_staff
    Keys,        \* session keys, numbered in the order they are given out
    MaxAccess,   \* orders that a session remembers (10)
    MaxVisits,   \* a bound on the requests of all browsers together
    NoKey, Guest,
    Unused, Deleted,  \* no session row: the key was not given out yet, or the row is gone
    Absent            \* no copy in the cache

\* The number of the table, too, is kept in the session, but nothing depends on it.
Sessions == [user : Users \cup {Guest}, access : Seq(Orders)]

ASSUME AccountsAssumption ==
    /\ Carts = Users \cup Keys /\ StaffUsers \subseteq Users
    /\ Keys \subseteq Nat
    /\ MaxAccess \in Nat \ {0} /\ MaxVisits \in Nat
    /\ NoKey \notin Keys /\ Guest \notin Users
    /\ Unused # Deleted /\ {Unused, Deleted, Absent} \cap Sessions = {}

VARIABLES
    cookie,   \* the session key a browser sends
    store,    \* the session rows
    cached,   \* their copies in the cache
    visit,    \* the request a worker serves, with its copy of the session
    owner,    \* Order.user
    visits    \* the requests that were let in, up to MaxVisits

accountVars == <<cookie, store, cached, visit, owner, visits>>
allVars == <<storeVars, accountVars>>

NewSession == [user |-> Guest, access |-> <<>>]

Valid(k) == k \in Keys /\ store[k] \notin {Unused, Deleted}

NoVisit == [kind |-> "none"]

\* Every copy of the session of key k: the row, the one in the cache, and those of the
\* requests under way.
Copies(k) ==
    ({store[k], cached[k]} \ {Unused, Deleted, Absent})
        \cup {visit[w].session : w \in {x \in Workers : visit[x] # NoVisit /\ visit[x].key = k}}

-----------------------------------------------------------------------------
(* A request begins and ends. *)

\* The request of browser b on worker w, with session key k and the copy s.
Visit(kind, b, k, s) ==
    [kind |-> kind, browser |-> b, key |-> k, session |-> s, modified |-> FALSE, ended |-> NoKey]

\* SessionStore.load: the copy of the cache, or else (it has none, or does not answer)
\* that of the row, which is yet to be cached.  A key without either is no key.
Load(w, b) ==
    LET k == cookie[b]
    IN  \/ /\ k # NoKey /\ cached[k] # Absent
           /\ visit' = [visit EXCEPT ![w] = Visit("loaded", b, k, cached[k])]
        \/ /\ Valid(k)
           /\ visit' = [visit EXCEPT ![w] = Visit("fill", b, k, store[k])]
        \/ /\ ~Valid(k)
           /\ visit' = [visit EXCEPT ![w] = Visit("loaded", b, NoKey, NewSession)]

\* A request of browser b; for the sake of a finite model they are counted.
Arrive(w, b) ==
    /\ visit[w] = NoVisit
    /\ visits < MaxVisits /\ visits' = visits + 1
    /\ Load(w, b)
    /\ UNCHANGED <<storeVars, cookie, store, cached, owner>>

\* The cache is set to what the row was.
FillCache(w) ==
    /\ visit[w].kind = "fill"
    /\ visit' = [visit EXCEPT ![w].kind = "loaded"]
    /\ cached' = [cached EXCEPT ![visit[w].key] = visit[w].session] \/ UNCHANGED cached
    /\ UNCHANGED <<storeVars, cookie, store, owner, visits>>

\* A copy in the cache expires or makes room for another.
Evict(k) ==
    /\ cached' = [cached EXCEPT ![k] = Absent]
    /\ UNCHANGED <<storeVars, cookie, store, visit, owner, visits>>

\* A key that nobody has had; the bound on Keys is the bound on log-ins and visits.
Fresh(k) == store[k] = Unused /\ \A q \in Keys : q < k => store[q] # Unused

\* _get_cart, cart_context: a browser without a session gets one, with a new row and a
\* copy in the cache, at once.  The visit goes on with key k.
get_session(w, k) ==
    \/ /\ visit[w].key = NoKey /\ Fresh(k)
       /\ store' = [store EXCEPT ![k] = NewSession]
       /\ cached' = [cached EXCEPT ![k] = NewSession]
    \/ visit[w].key = k /\ UNCHANGED <<store, cached>>

\* The page of w, which has loaded its session, goes on with key k.
OpenPage(w, k, modified) ==
    /\ visit[w].kind = "loaded"
    /\ get_session(w, k)
    /\ visit' = [visit EXCEPT ![w].kind = "page", ![w].key = k,
                              ![w].modified = modified \/ visit[w].key = NoKey]
    /\ UNCHANGED <<cookie, owner, visits>>

\* _get_cart: the cart of the user, or else of the session.
CartOf(s, k) == IF s.user = Guest THEN k ELSE s.user

\* Defect: the session is written back even if its row is gone.
RespondAnyway(w) ==
    LET v == visit[w]
    IN  /\ v.kind = "page" /\ Serving(w, "idle")
        /\ \/ /\ v.modified /\ v.key # NoKey
              /\ store' = [store EXCEPT ![v.key] = v.session]
              /\ visit' = [visit EXCEPT ![w].kind = "save"]
              /\ UNCHANGED cookie
           \/ /\ ~v.modified
              /\ visit' = [visit EXCEPT ![w] = NoVisit]
              /\ cookie' = IF v.key = NoKey THEN [cookie EXCEPT ![v.browser] = NoKey] ELSE cookie
              /\ UNCHANGED store
        /\ UNCHANGED <<storeVars, cached, owner, visits>>

\* SessionMiddleware at the end of a request.  A session that was changed is saved, first
\* to its row.  It is not if the row is gone (SessionInterrupted) or the answer is an
\* error.  A browser whose key is worth nothing is told to forget it.
Respond(w) ==
    LET v == visit[w]
    IN  /\ v.kind = "page" /\ Serving(w, "idle")
        /\ \/ /\ v.modified /\ Valid(v.key)
              /\ store' = [store EXCEPT ![v.key] = v.session]
              /\ visit' = [visit EXCEPT ![w].kind = "save"]
              /\ UNCHANGED cookie
           \/ /\ visit' = [visit EXCEPT ![w] = NoVisit]
              /\ cookie' = IF v.key = NoKey THEN [cookie EXCEPT ![v.browser] = NoKey] ELSE cookie
              /\ UNCHANGED store
        /\ UNCHANGED <<storeVars, cached, owner, visits>>

\* Then to the cache, and the browser is told its key.
SaveCache(w) ==
    LET v == visit[w]
    IN  /\ v.kind = "save"
        /\ cached' = [cached EXCEPT ![v.key] = v.session] \/ UNCHANGED cached
        /\ cookie' = [cookie EXCEPT ![v.browser] = v.key]
        /\ visit' = [visit EXCEPT ![w] = NoVisit]
        /\ UNCHANGED <<storeVars, store, owner, visits>>

\* SessionStore.delete goes on with the copy in the cache.
DropCache(w) ==
    /\ visit[w].kind = "end"
    /\ cached' = [cached EXCEPT ![visit[w].ended] = Absent] \/ UNCHANGED cached
    /\ visit' = [visit EXCEPT ![w].kind = "page", ![w].ended = NoKey]
    /\ UNCHANGED <<storeVars, cookie, store, owner, visits>>

-----------------------------------------------------------------------------
(* Pages of the shop. *)

\* home, product_list, product_detail and the other pages that only show something, a
\* form that is not valid included: the number of items in the cart is part of each, and
\* the views of a product are counted by session, so that the browser has a session
\* afterwards.
ViewPage(w, k) == OpenPage(w, k, FALSE) /\ UNCHANGED storeVars

\* CafeTableSessionMiddleware on the link of a table's QR code: the number of the
\* table goes into the session, which is saved with all else that is in the copy.
ScanTable(w, k) == OpenPage(w, k, TRUE) /\ UNCHANGED storeVars

\* add_to_cart and cart_view.
UseCart(w, k) ==
    LET c == CartOf(visit[w].session, k)
    IN  /\ visit[w].kind = "loaded"
        /\ \/ \E p \in Products, n \in Quantities : BeginAdd(w, c, p, n)
           \/ \E p \in Products, n \in Quantities : BeginSet(w, c, p, n)
           \/ \E p \in Products : BeginRemove(w, c, p)
        /\ OpenPage(w, k, FALSE)

\* checkout: sync_table_from_pickup_note writes the note of the form into the session.
Checkout(w) ==
    LET k == visit[w].key
        c == CartOf(visit[w].session, k)
    IN  /\ visit[w].kind = "loaded" /\ k # NoKey
        /\ BeginOnlineCheckout(w, c) \/ BeginCounterCheckout(w, c)
        /\ OpenPage(w, k, TRUE)

\* grant_checkout_order_access.
Granted(access, o) ==
    LET all == IF o \in ToSet(access) THEN access ELSE Append(access, o)
    IN  IF Len(all) <= MaxAccess THEN all ELSE Tail(all)

\* order_confirmation, order_receipt and order_detail show order o to session s.
can_view_checkout_order(s, o) ==
    \/ s.user \in StaffUsers
    \/ s.user # Guest /\ owner[o] = s.user
    \/ o \in ToSet(s.access)

\* The order belongs to the user; at the counter the session may look at it as well.
PlaceOrder(w, o) ==
    /\ \/ CommitOnlineCheckout(w, o) /\ UNCHANGED visit
       \/ /\ CommitCounterCheckout(w, o)
          /\ visit' = [visit EXCEPT ![w].session.access = Granted(@, o)]
    /\ owner' = [owner EXCEPT ![o] = visit[w].session.user]
    /\ UNCHANGED <<cookie, store, cached, visits>>

-----------------------------------------------------------------------------
(* Log-in and log-out. *)

\* The session of w ends: its row is deleted, the copy in the cache is next.  The visit
\* goes on with key k and session s.
EndSession(w, k, s, modified) ==
    visit' = [visit EXCEPT ![w].kind = IF visit[w].key = NoKey THEN "page" ELSE "end",
                           ![w].ended = visit[w].key, ![w].key = k, ![w].session = s, ![w].modified = modified]

\* The rows after cycle_key, which saves the session under the new key k.
Cycled(w, k) ==
    [q \in Keys |-> IF q = k THEN visit[w].session
                    ELSE IF q = visit[w].key /\ Valid(q) THEN Deleted ELSE store[q]]

\* Defect: merge_session_cart_on_login finds the cart of the session before the
\* log-in: merge_carts moves the items and deletes that cart.
LoginAndMerge(w, u, k) ==
    LET v == visit[w]
    IN  /\ v.kind = "loaded" /\ v.session.user = Guest /\ Fresh(k)
        /\ store' = Cycled(w, k)
        /\ cached' = [cached EXCEPT ![k] = v.session]
        /\ EndSession(w, k, [v.session EXCEPT !.user = u], TRUE)
        /\ IF v.key = NoKey THEN UNCHANGED storeVars
           ELSE /\ items' = [items EXCEPT ![u] = items[v.key],
                                          ![v.key] = [p \in Products |-> 0]]
                /\ UNCHANGED <<vars, active_checkout_order, phase, request>>
        /\ UNCHANGED <<cookie, owner, visits>>

\* login_view and register, for a visitor who is not logged in.  login() gives the session
\* a new key, saves it without the user as yet and deletes the old row.  Then
\* merge_session_cart_on_login looks for a cart of the session, by the new key, and finds
\* none.
Login(w, u, k) ==
    LET v == visit[w]
    IN  /\ v.kind = "loaded" /\ v.session.user = Guest /\ Fresh(k)
        /\ store' = Cycled(w, k)
        /\ cached' = [cached EXCEPT ![k] = v.session]
        /\ EndSession(w, k, [v.session EXCEPT !.user = u], TRUE)
        /\ UNCHANGED <<storeVars, cookie, owner, visits>>

\* Defect: the user is taken out of the session, which otherwise goes on.
LogoutInPlace(w) ==
    /\ visit[w].kind = "loaded"
    /\ visit[w].session.user # Guest
    /\ visit' = [visit EXCEPT ![w].kind = "page", ![w].session.user = Guest, ![w].modified = TRUE]
    /\ UNCHANGED <<storeVars, cookie, store, cached, owner, visits>>

\* logout_view: the row is deleted at once; the browser forgets its key with the
\* response.
Logout(w) ==
    /\ visit[w].kind = "loaded"
    /\ visit[w].session.user # Guest
    /\ store' = [store EXCEPT ![visit[w].key] = Deleted]
    /\ EndSession(w, NoKey, NewSession, FALSE)
    /\ UNCHANGED <<storeVars, cookie, cached, owner, visits>>

-----------------------------------------------------------------------------
AccountsInit ==
    /\ StoreInit
    /\ cookie = [b \in Browsers |-> NoKey]
    /\ store = [k \in Keys |-> Unused]
    /\ cached = [k \in Keys |-> Absent]
    /\ visit = [w \in Workers |-> NoVisit]
    /\ owner = [o \in Orders |-> Guest]
    /\ visits = 0

\* The later steps of a cart request.  What becomes of an order, and the tasks of the
\* stock service, know nothing of sessions and are left to Storefront.
CartStep(w) ==
    /\ GetItem(w) \/ SaveItem(w) \/ SetItem(w) \/ ReleaseHold(w) \/ DeleteItem(w) \/ RollBack(w)
    /\ UNCHANGED accountVars

\* The view of a request that has loaded its session.
View(w) ==
    \/ \E k \in Keys : ViewPage(w, k) \/ ScanTable(w, k) \/ UseCart(w, k)
    \/ \E u \in Users, k \in Keys : Login(w, u, k)
    \/ Checkout(w)
    \/ Logout(w)

SessionStep(w) == FillCache(w) \/ Respond(w) \/ SaveCache(w) \/ DropCache(w)

AccountsNext ==
    \/ \E w \in Workers, b \in Browsers : Arrive(w, b)
    \/ \E w \in Workers, o \in Orders : PlaceOrder(w, o)
    \/ \E w \in Workers : View(w) \/ CartStep(w) \/ SessionStep(w)
    \/ \E k \in Keys : Evict(k)

AccountsSpec == AccountsInit /\ [][AccountsNext]_allVars

-----------------------------------------------------------------------------
(* Properties. *)

Visits ==
    [kind : {"fill", "loaded", "page", "end", "save"}, browser : Browsers,
     key : Keys \cup {NoKey}, session : Sessions, modified : BOOLEAN, ended : Keys \cup {NoKey}]

\* Type correctness of sessions and requests.
AccountsTypeOK ==
    /\ cookie \in [Browsers -> Keys \cup {NoKey}]
    /\ store \in [Keys -> Sessions \cup {Unused, Deleted}]
    /\ cached \in [Keys -> Sessions \cup {Absent}]
    /\ visit \in [Workers -> Visits \cup {NoVisit}]
    /\ owner \in [Orders -> Users \cup {Guest}]
    /\ visits \in 0 .. MaxVisits

\* For carts and stock, log-in, log-out and whatever happens to a session in between
\* change nothing: what is shown of StoreSpec holds for carts chosen by session.
UsesStorefront == StoreSpec

\* The users that the copies of the session of key k name.
Holders(k) == {s.user : s \in Copies(k)}

\* However requests overlap, and whichever calls of the cache fail: a deleted row does not
\* come back, although a copy of it may live on in the cache; no copy of a session that was
\* begun ever names a user that none named before, so that a session that is gone everywhere
\* stays gone; and no two copies name two accounts.
SessionsKeepTheirUser ==
    [][\A k \in Keys :
          /\ store[k] = Deleted => store'[k] = Deleted
          /\ store[k] # Unused => Holders(k)' \subseteq Holders(k)
          /\ \A u, v \in Holders(k)' : u = v \/ Guest \in {u, v}]_allVars

\* No copy of a session, however old, lets a customer see an order of another account:
\* who may see it has ordered it, or it was ordered by a guest.  Staff see every order.
AccessIsOwn ==
    \A k \in Keys : \A s \in Copies(k), o \in Orders :
        can_view_checkout_order(s, o) => owner[o] \in {Guest, s.user} \/ s.user \in StaffUsers

\* A cart is changed by the requests of its own user or session and by nothing else: the
\* log-in, in particular, leaves what the visitor has chosen in the cart of a session
\* that is deleted, where the customer does not find it again.
CartsStayApart ==
    [][\A c \in Carts :
          items'[c] # items[c] =>
              \E w \in Workers :
                  /\ visit[w].kind = "page" /\ ~Serving(w, "idle")
                  /\ request[w].cart = c
                  /\ CartOf(visit[w].session, visit[w].key) = c]_allVars

=============================================================================
