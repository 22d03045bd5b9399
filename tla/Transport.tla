------------------------------- MODULE Transport -------------------------------
(***************************************************************************)
(* Requests of the GitHub transport (src/github/transport.mjs) with the    *)
(* credentials of src/github/connection.mjs: run, await by await, with its *)
(* deadline and cancellation; the conditional cache and its epochs;        *)
(* redirects of archives; pagination.                                      *)
(*                                                                         *)
(* The provider is external.  It promises little: a read may be answered   *)
(* from any state it has been in, a write takes effect at any time after   *)
(* it was handed over, or never, and a body is a number: how many writes   *)
(* it has seen.                                                            *)
(***************************************************************************)
EXTENDS Naturals, FiniteSets

CONSTANTS
    Call,         \* requests; a number of calls in flight at once
    Scope,        \* proof scopes of the connection
    Plans,        \* bounded explorations: [Call -> the kind of request it makes]
    Nothing,      \* no entry, no body
    MaxPages,     \* maxPages of a pagination
    MaxRedirects, \* maxRedirects of an archive
    MaxRotations, \* bound: new generations of the credential
    MaxStale      \* bound: invalidations asked for by the host

Kind == {"read", "write", "archive", "pages"}

\* No value is no scope and nothing that a request may be or report.
ASSUME TransportAssumption ==
    /\ Scope \cap {Nothing, "all"} = {}
    /\ Nothing \notin Kind \cup {"response", "conditional-cache", "no-write-effect", "uncertain-effect"}
    /\ \A plan \in Plans, c \in Call : plan[c] \in Kind \cup {Nothing}

VARIABLES
    call,         \* [Call -> the request as it runs]
    epoch,        \* cacheEpoch, and one epoch of every scope
    entry,        \* cache entries that were handed out
    credential,   \* the generation the resolver returns now
    world,        \* writes the provider has carried out
    boundary      \* writes dispatched and invalidations asked for (observer)

transportVars == <<call, epoch, entry, credential, world, boundary>>

Waiting == {"credential", "ready", "sent", "reading", "releasing"}   \* inside a bounded await

Epochs(s) == <<epoch["all"], epoch[s]>>

IdleCall == [at |-> "idle", kind |-> "read", scope |-> Nothing, gen |-> 0, cached |-> Nothing,
             epochs |-> <<0, 0>>, since |-> 0, until |-> 0, body |-> Nothing, source |-> Nothing,
             sent |-> FALSE, done |-> FALSE, effect |-> Nothing, seen |-> {}, pages |-> {}]

Update(c, r) == call' = [call EXCEPT ![c] = r]

\* Every failure of run goes through one catch clause.
Failed(r) == [r EXCEPT !.at = "failed",
                       !.effect = IF r.kind = "write" /\ r.sent THEN "uncertain-effect"
                                                                 ELSE "no-write-effect"]

Fail(c) == Update(c, Failed(call[c]))

TransportInit ==
    /\ \E plan \in Plans : call = [c \in Call |-> [IdleCall EXCEPT !.kind = plan[c]]]
    /\ epoch = [s \in Scope \cup {"all"} |-> 0]
    /\ entry = {}
    /\ credential = 0
    /\ world = 0
    /\ boundary = [s \in Scope |-> 0]

-----------------------------------------------------------------------------
(* run                                                                     *)

\* execute, downloadArchive, paginateRest and paginateGraphQL on a prepared
\* request; a write carries the indication of its authority.
Start(c, s, e) ==
    /\ call[c].at = "idle" /\ call[c].kind # Nothing
    /\ e # Nothing => call[c].kind = "read" /\ e.scope = s
    /\ Update(c, [call[c] EXCEPT !.at = "credential", !.scope = s, !.cached = e])
    /\ UNCHANGED <<epoch, entry, credential, world, boundary>>

\* The binding a cache entry or an earlier page was acquired under is still
\* the one of this request.
SameContext(r) ==
    /\ r.cached # Nothing => r.cached.gen = credential /\ r.cached.epochs = Epochs(r.scope)
    /\ \A page \in r.pages : page.gen = credential

\* resolveGitHubCredential returns.
Resolve(c) ==
    /\ call[c].at = "credential"
    /\ IF SameContext(call[c])
         THEN Update(c, [call[c] EXCEPT !.at = "ready", !.gen = credential,
                                        !.epochs = Epochs(call[c].scope),
                                        !.since = boundary[call[c].scope]])
         ELSE Fail(c)
    /\ UNCHANGED <<epoch, entry, credential, world, boundary>>

\* The request is handed to the injected function; a write invalidates what
\* was cached whether or not it will have an effect.
Send(c) ==
    /\ call[c].at = "ready"
    /\ Update(c, [call[c] EXCEPT !.at = "sent", !.sent = TRUE])
    /\ IF call[c].kind = "write"
         THEN /\ epoch' = [epoch EXCEPT !["all"] = @ + 1]
              /\ boundary' = [s \in Scope |-> boundary[s] + 1]
         ELSE UNCHANGED <<epoch, boundary>>
    /\ UNCHANGED <<entry, credential, world>>

\* A redirect of an archive, to a target it has not visited.
Redirect(c, target) ==
    /\ call[c].at = "sent"
    /\ IF call[c].kind = "archive" /\ Cardinality(call[c].seen) < MaxRedirects /\ target \notin call[c].seen
         THEN Update(c, [call[c] EXCEPT !.at = "ready", !.seen = @ \cup {target}])
         ELSE Fail(c)
    /\ UNCHANGED <<epoch, entry, credential, world, boundary>>

\* Mutant: the epochs are compared when the request starts, not when it ends.
StillCachedThen(r) == r.cached # Nothing

\* Nothing has invalidated the cache while the answer was on its way.
StillCached(r) == r.cached # Nothing /\ r.epochs = Epochs(r.scope)

\* 304: what is released before the facts are delivered is an await of its own.
NotModified(c) ==
    /\ call[c].at = "sent" /\ call[c].kind = "read"
    /\ call[c].cached # Nothing => call[c].cached.body \in 0..world
    /\ IF StillCached(call[c])
         THEN Update(c, [call[c] EXCEPT !.at = "releasing", !.source = "conditional-cache",
                                        !.body = call[c].cached.body, !.since = call[c].cached.since,
                                        !.until = boundary[call[c].scope]])
         ELSE Fail(c)
    /\ UNCHANGED <<epoch, entry, credential, world, boundary>>

\* The expected status: the body is read part by part.
Respond(c) ==
    /\ call[c].at = "sent"
    /\ \E seen \in 0..world :
          Update(c, [call[c] EXCEPT !.at = "reading", !.body = seen])
    /\ UNCHANGED <<epoch, entry, credential, world, boundary>>

\* The body is complete and of the declared type, or there is none.
Capture(c) ==
    /\ call[c].at \in {"reading", "releasing"}
    /\ Update(c, IF call[c].at = "releasing" THEN [call[c] EXCEPT !.at = "captured"]
                 ELSE [call[c] EXCEPT !.at = "captured", !.source = "response",
                                      !.until = boundary[call[c].scope]])
    /\ UNCHANGED <<epoch, entry, credential, world, boundary>>

\* A denial, an unexpected status, a broken stream, a bound exceeded, a body
\* of another type; or the deadline or the caller: every await ends at once.
Break(c) ==
    /\ call[c].at \in Waiting
    /\ Fail(c)
    /\ UNCHANGED <<epoch, entry, credential, world, boundary>>

-----------------------------------------------------------------------------
(* Pagination                                                              *)

\* One more page: a new request, which resolves its credential again.
NextPage(c, link) ==
    LET page == [gen |-> call[c].gen, body |-> call[c].body] IN
    /\ call[c].at = "captured" /\ call[c].kind = "pages" /\ ~call[c].done
    /\ IF Cardinality(call[c].seen) + 1 < MaxPages /\ link \notin call[c].seen
         THEN Update(c, [call[c] EXCEPT !.at = "credential", !.seen = @ \cup {link},
                                        !.pages = @ \cup {page}])
         ELSE Fail(c)
    /\ UNCHANGED <<epoch, entry, credential, world, boundary>>

LastPage(c) ==
    LET page == [gen |-> call[c].gen, body |-> call[c].body] IN
    /\ call[c].at = "captured" /\ call[c].kind = "pages" /\ ~call[c].done
    /\ Update(c, [call[c] EXCEPT !.done = TRUE, !.pages = @ \cup {page}])
    /\ UNCHANGED <<epoch, entry, credential, world, boundary>>

-----------------------------------------------------------------------------
(* The cache                                                               *)

\* createCacheEntry from the facts of a plain read
CreateCacheEntry(c) ==
    LET r == call[c] IN
    /\ r.at = "captured" /\ r.kind = "read" /\ r.source = "response"
    /\ r.epochs = Epochs(r.scope)
    /\ entry' = entry \cup {[scope |-> r.scope, gen |-> r.gen, epochs |-> r.epochs,
                             body |-> r.body, since |-> r.since]}
    /\ UNCHANGED <<call, epoch, credential, world, boundary>>

\* invalidateCache, of one scope or of all
InvalidateCache(s) ==
    /\ \A x \in DOMAIN epoch : epoch[x] < MaxStale
    /\ epoch' = [epoch EXCEPT ![s] = @ + 1]
    /\ boundary' = [x \in Scope |-> boundary[x] + IF s \in {x, "all"} THEN 1 ELSE 0]
    /\ UNCHANGED <<call, entry, credential, world>>

-----------------------------------------------------------------------------
(* The environment                                                         *)

\* The provider carries out a write it has been handed, also after the caller
\* has given up.
TakeEffect(c) ==
    /\ call[c].kind = "write" /\ call[c].sent /\ ~call[c].done
    /\ world' = world + 1
    /\ Update(c, [call[c] EXCEPT !.done = TRUE])
    /\ UNCHANGED <<epoch, entry, credential, boundary>>

Rotate ==
    /\ credential < MaxRotations
    /\ credential' = credential + 1
    /\ UNCHANGED <<call, epoch, entry, world, boundary>>

\* The caller of a plain read asks again, perhaps with the entry it made.
Again(c) ==
    /\ call[c].at = "captured" /\ call[c].kind = "read" /\ call[c].cached = Nothing
    /\ Update(c, IdleCall)
    /\ UNCHANGED <<epoch, entry, credential, world, boundary>>

TransportNext ==
    \/ \E c \in Call :
          \/ \E s \in Scope, e \in entry \cup {Nothing} : Start(c, s, e)
          \/ Resolve(c) \/ Send(c) \/ NotModified(c) \/ Respond(c) \/ Capture(c) \/ Break(c)
          \/ \E target \in {"api", "archive"} : Redirect(c, target)
          \/ \E link \in 1..MaxPages : NextPage(c, link)
          \/ LastPage(c) \/ CreateCacheEntry(c) \/ TakeEffect(c) \/ Again(c)
    \/ \E s \in Scope \cup {"all"} : InvalidateCache(s)
    \/ Rotate

TransportSpec == TransportInit /\ [][TransportNext]_transportVars

-----------------------------------------------------------------------------
(* Properties                                                              *)

\* What a call delivers from several acquisitions was acquired in one context:
\* the pages of a listing under one credential, and facts from the cache under
\* the credential of the call, with no write dispatched and no invalidation
\* asked for between their acquisition and the answer that confirms them.  And
\* a failed write whose report excludes an effect never has one: the provider
\* was never handed the request, however the deadline raced the dispatch.
OutcomesHold ==
    \A c \in Call :
       /\ call[c].at = "captured" =>
            /\ \A page, other \in call[c].pages : page.gen = other.gen
            /\ call[c].source = "conditional-cache" =>
                  call[c].cached.gen = call[c].gen /\ call[c].since = call[c].until
       /\ call[c].effect = "no-write-effect" /\ call[c].kind = "write" =>
            ~call[c].sent /\ ~call[c].done
===============================================================================
