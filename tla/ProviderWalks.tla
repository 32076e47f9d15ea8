--------------------------- MODULE ProviderWalks ---------------------------
(* How the adapters of the providers walk a listing, or the results of a   *)
(* lookup, page by page: adapters/<provider>/adapter.py and                *)
(* adapters/pixiv/transport.py, with the envelopes and cursors of          *)
(* adapters/contracts.py.  Each turns a cursor into a request and what is  *)
(* answered into posts and the next cursor; the site changes in between.   *)
EXTENDS Integers, FiniteSets, FiniteSetsExt, Sequences, SequencesExt

CONSTANTS
    SitePost,     \* posts of a site, by number: a newer one has a higher number
    Query,        \* what is asked: a lookup has another query once its seed was rewritten
    Tokens,       \* per query the spellings it is sent as, each the posts that match it
    PageSize,
    MaxChanges,   \* bounds of the model: posts added or removed and tokens that go stale,
    MaxFaults,    \* and answers that fail and pauses
    Nothing

(* The page of a cursor: the boundary b<ID>, an offset or a page number.   *)
FirstPage == 0
Cursor == [release : Nat, query : Query, token : Nat \ {0}, page : Nat]
PageRequest == [query : Query, token : Nat \ {0}, page : Nat]

ASSUME WalkAssumption ==
    /\ IsFiniteSet(SitePost) /\ SitePost \subseteq Nat \ {0}
    /\ Tokens \in [Query -> Seq(SUBSET SitePost) \ {<<>>}]
    /\ PageSize \in Nat \ {0}
    /\ MaxChanges \in Nat /\ MaxFaults \in Nat
    /\ Nothing \notin Nat \cup Cursor \cup PageRequest

E621Walks == {"e621_lookup", "e621_listing"}
DanbooruWalks == {"danbooru_lookup", "danbooru_listing"}
GelbooruWalks == {"gelbooru_lookup", "gelbooru_listing"}
Lookups == {"e621_lookup", "danbooru_lookup", "gelbooru_lookup"}
TokenWalks == {"sankaku_listing", "pixiv_listing"}
(* Asked for what is older than a post, and for what follows an offset. *)
Keyset == E621Walks \cup DanbooruWalks \cup {"sankaku_listing"}
Offset == {"pawchive_listing", "pixiv_listing"}
Walk == Lookups \cup Keyset \cup GelbooruWalks \cup Offset

VARIABLES
    walk,       \* the walk of this behaviour
    rude,       \* whether its site may ignore the boundary of a request
    site,       \* the posts it has
    stood,      \* history: those it had all the time since the walk began
    removed,    \* history: whether one was removed
    changes,    \* what is left of the bounds
    faults

VARIABLES
    query,      \* what the walk asks now
    release,    \* the release of the software
    cursor,     \* the continuation it keeps, or Nothing before its first page
    seen,       \* per query and token, the posts of the pages it accepted
    again,      \* history: whether one came twice for its token
    blank,      \* history: whether an answer without a body was accepted
    ending      \* "open" while it is walked, or how it ended

VARIABLES
    request,    \* the page that is being fetched
    access,     \* the access token: "none", "valid" or "stale"
    attempt,    \* of _authorized_get
    stale       \* history: how often the token was no good during the request

siteVars == <<walk, rude, site, stood, removed, changes, faults>>
keptVars == <<query, release, cursor, seen, again, blank, ending>>
fetchVars == <<request, access, attempt, stale>>
walkVars == <<siteVars, keptVars, fetchVars>>

Classified == {"authentication_required", "authorization_denied", "unavailable", "deleted",
               "rate_limited", "transient_provider", "malformed_response"}
WalkEnding == {"open", "complete", "paused", "refused", "invalid"} \cup Classified

WalkTypeOK ==
    /\ walk \in Walk /\ rude \in BOOLEAN /\ removed \in BOOLEAN
    /\ stood \subseteq site /\ site \subseteq SitePost
    /\ changes \in 0..MaxChanges /\ faults \in 0..MaxFaults
    /\ query \in Query /\ release \in 1..MaxFaults + 1
    /\ cursor \in Cursor \cup {Nothing}
    /\ \A q \in Query : seen[q] \in [DOMAIN Tokens[q] -> SUBSET SitePost]
    /\ again \in BOOLEAN /\ blank \in BOOLEAN
    /\ ending \in WalkEnding
    /\ request \in PageRequest \cup {Nothing}
    /\ access \in {"none", "valid", "stale"} /\ attempt \in 0..1 /\ stale \in Nat

(* A listing has one target; a lookup goes through the tokens of its query. *)
TokensOf(q) == IF walk \in Lookups THEN Tokens[q] ELSE <<Tokens[q][1]>>

(* A site that ignores offsets, or its own cursors, is left out: such a    *)
(* walk has no end but the budgets of its caller.                          *)
WalkInit ==
    /\ walk \in Walk /\ rude \in BOOLEAN
    /\ rude => walk \in E621Walks \cup DanbooruWalks
    /\ site \in SUBSET SitePost /\ stood = site /\ removed = FALSE
    /\ changes = MaxChanges /\ faults = MaxFaults
    /\ query \in Query /\ release = 1
    /\ cursor = Nothing
    /\ seen = [q \in Query |-> [t \in DOMAIN Tokens[q] |-> {}]]
    /\ again = FALSE /\ blank = FALSE
    /\ ending = "open"
    /\ request = Nothing /\ access = "none" /\ attempt = 0 /\ stale = 0

-----------------------------------------------------------------------------
(* The site *)

(* Posts are listed newest first: a listing, and a page of it, is told by  *)
(* its posts, and the place of a post is the number of those above it.     *)
Listed(r) == TokensOf(r.query)[r.token] \cap site

Place(listing, x) == Cardinality({y \in listing : y > x})

UpToSize(listing) == {x \in listing : Place(listing, x) < PageSize}

(* The last post of a page is its oldest. *)
LastOf(posts) == Min(posts)

(* The DAPI of Gelbooru counts pages, as the tests of its listing say.     *)
PlaceOf(r) == IF walk \in GelbooruWalks THEN r.page * PageSize ELSE r.page

(* What follows the page's place in the listing. *)
Following(r) ==
    IF walk \in Keyset THEN {x \in Listed(r) : r.page = FirstPage \/ x < r.page}
    ELSE {x \in Listed(r) : Place(Listed(r), x) >= PlaceOf(r)}

(* The cursor that a site itself hands out, pixiv's next_url and the next  *)
(* of Sankaku: Nothing at the end.                                         *)
SiteCursor(r, posts) ==
    IF posts = {} \/ posts = Following(r) THEN Nothing
    ELSE IF walk \in Keyset THEN LastOf(posts) ELSE r.page + Cardinality(posts)

Answer(status, body, posts, next) ==
    [status |-> status, body |-> body, posts |-> posts, next |-> next]

AnswersTo(r) ==
    {Answer(200, "posts", posts, SiteCursor(r, posts)) :
        posts \in {UpToSize(Following(r))} \cup (IF rude THEN {UpToSize(Listed(r))} ELSE {})}

(* A body that is no JSON, or of no bytes, or an error: with status 200,   *)
(* or with one that says so.  503 comes with a time to retry after; 401    *)
(* comes from Sankaku and pixiv if the token is stale.                     *)
FaultyAnswers ==
    {Answer(200, body, {}, Nothing) : body \in {"garbled", "blank", "error"}}
        \cup {Answer(status, "error", {}, Nothing) :
                 status \in {403, 404, 410, 418, 422, 429, 500, 503}
                               \cup (IF walk \in TokenWalks THEN {} ELSE {401})}

PostAdded(x) ==
    /\ changes > 0 /\ x \notin site
    /\ \A y \in site : x > y
    /\ site' = site \cup {x}
    /\ changes' = changes - 1
    /\ UNCHANGED <<walk, rude, stood, removed, faults, keptVars, fetchVars>>

PostRemoved(x) ==
    /\ changes > 0 /\ x \in site
    /\ site' = site \ {x} /\ stood' = stood \ {x} /\ removed' = TRUE
    /\ changes' = changes - 1
    /\ UNCHANGED <<walk, rude, faults, keptVars, fetchVars>>

TokenGoesStale ==
    /\ changes > 0 /\ access = "valid"
    /\ access' = "stale"
    /\ changes' = changes - 1
    /\ stale' = IF request = Nothing THEN stale ELSE stale + 1
    /\ UNCHANGED <<walk, rude, site, stood, removed, faults, keptVars, request, attempt>>

-----------------------------------------------------------------------------
(* What an adapter makes of an answer *)

Accepted(posts, next) == [outcome |-> "success", posts |-> posts, next |-> next]
Refused(outcome) == [outcome |-> outcome, posts |-> {}, next |-> Nothing]
Malformed == Refused("malformed_response")

NextPage(r, page) == [release |-> release, query |-> r.query, token |-> r.token, page |-> page]

NextToken(r) ==
    IF r.token < Len(TokensOf(r.query))
    THEN [release |-> release, query |-> r.query, token |-> r.token + 1, page |-> FirstPage]
    ELSE Nothing

(* _raise_for_outcome. *)
StatusOutcome(status) ==
    CASE status = 401 -> "authentication_required"
      [] status = 403 -> "authorization_denied"
      [] status = 429 -> "rate_limited"
      [] status >= 500 -> "transient_provider"
      [] status \in {404, 410, 418, 422} -> "unavailable"
      [] OTHER -> "success"

PawchiveOutcome(status) == IF status = 410 THEN "deleted" ELSE StatusOutcome(status)

(* 503 is a rate limit if it says when to retry. *)
E621Outcome(status) == IF status = 503 THEN "rate_limited" ELSE PawchiveOutcome(status)

(* _status_failure leaves a missing record to its body, which has no list. *)
PixivOutcome(status) ==
    CASE status = 422 -> "malformed_response"
      [] status \in {404, 410, 418} -> "success"
      [] OTHER -> StatusOutcome(status)

OutcomeOf(status) ==
    CASE walk \in E621Walks -> E621Outcome(status)
      [] walk = "pawchive_listing" -> PawchiveOutcome(status)
      [] walk = "pixiv_listing" -> PixivOutcome(status)
      [] OTHER -> StatusOutcome(status)

(* _validate_lookup_boundary, and the same check of _listing_page. *)
CrossesBoundary(r, posts) == r.page # FirstPage /\ \E x \in posts : x >= r.page

(* A full page leads to what is older than its last post, a short one to   *)
(* the next token.                                                         *)
E621LookupContinuation(r, posts) ==
    IF Cardinality(posts) >= PageSize THEN NextPage(r, LastOf(posts)) ELSE NextToken(r)

E621Lookup(r, a) ==
    IF a.body # "posts" \/ CrossesBoundary(r, a.posts) THEN Malformed
    ELSE Accepted(a.posts, E621LookupContinuation(r, a.posts))

(* A listing ends with an empty page. *)
E621ListingContinuation(r, posts) ==
    IF posts = {} THEN Nothing ELSE NextPage(r, LastOf(posts))

E621Listing(r, a) ==
    IF a.body # "posts" \/ CrossesBoundary(r, a.posts) THEN Malformed
    ELSE Accepted(a.posts, E621ListingContinuation(r, a.posts))

(* Only the lookup of a source URL has further tokens. *)
DanbooruLookupContinuation(r, posts) ==
    IF Cardinality(posts) >= PageSize THEN NextPage(r, LastOf(posts)) ELSE NextToken(r)

(* A body that is one object is taken as a list of it, and has no id. *)
DanbooruLookup(r, a) ==
    IF a.body # "posts" THEN Malformed
    ELSE Accepted(a.posts, DanbooruLookupContinuation(r, a.posts))

DanbooruListing(r, a) ==
    IF a.body # "posts" THEN Malformed
    ELSE Accepted(a.posts, IF a.posts = {} THEN Nothing ELSE NextPage(r, LastOf(a.posts)))

(* The lookup counts posts: pid + limit. *)
GelbooruLookupContinuation(r, posts) ==
    IF Cardinality(posts) >= PageSize THEN NextPage(r, r.page + PageSize) ELSE NextToken(r)

GelbooruLookup(r, a) ==
    IF a.body # "posts" THEN Malformed
    ELSE Accepted(a.posts, GelbooruLookupContinuation(r, a.posts))

(* _raise_for_error_envelope. *)
ErrorEnvelope(a) == a.body = "error"

(* The listing counts pages: pid + 1. *)
GelbooruListingContinuation(r, posts) ==
    IF Cardinality(posts) >= PageSize THEN NextPage(r, r.page + 1) ELSE Nothing

(* An object without posts is a record without an id, which is skipped: a  *)
(* short page.                                                             *)
GelbooruListing(r, a) ==
    IF ErrorEnvelope(a) THEN Malformed
    ELSE Accepted(a.posts, GelbooruListingContinuation(r, a.posts))

PawchiveListing(r, a) ==
    IF a.body # "posts" THEN Malformed
    ELSE Accepted(a.posts, IF Cardinality(a.posts) >= PageSize THEN NextPage(r, r.page + Cardinality(a.posts))
                           ELSE Nothing)

SankakuListing(r, a) ==
    IF a.body # "posts" THEN Malformed
    ELSE Accepted(a.posts, IF a.next = Nothing THEN Nothing ELSE NextPage(r, a.next))

(* The offset of next_url. *)
PixivContinuation(r, next) == IF next = Nothing THEN Nothing ELSE NextPage(r, next)

PixivListing(r, a) ==
    IF a.body # "posts" THEN Malformed
    ELSE Accepted(a.posts, PixivContinuation(r, a.next))

(* ResponseEnvelope refuses an empty payload; all but pixiv put an empty   *)
(* object in its place.                                                    *)
EnvelopeRefused(a) == walk = "pixiv_listing" /\ a.body = "blank"

Normalize(r, a) ==
    LET outcome == OutcomeOf(a.status)
    IN  IF EnvelopeRefused(a) THEN Refused("invalid")
        ELSE IF outcome # "success" THEN Refused(outcome)
        ELSE IF a.body = "garbled" THEN Malformed
        ELSE CASE walk = "e621_lookup" -> E621Lookup(r, a)
               [] walk = "e621_listing" -> E621Listing(r, a)
               [] walk = "danbooru_lookup" -> DanbooruLookup(r, a)
               [] walk = "danbooru_listing" -> DanbooruListing(r, a)
               [] walk = "gelbooru_lookup" -> GelbooruLookup(r, a)
               [] walk = "gelbooru_listing" -> GelbooruListing(r, a)
               [] walk = "pawchive_listing" -> PawchiveListing(r, a)
               [] walk = "sankaku_listing" -> SankakuListing(r, a)
               [] walk = "pixiv_listing" -> PixivListing(r, a)

-----------------------------------------------------------------------------
(* One page *)

(* Mutant: a cursor is taken whatever it was made for. *)
FitsAnyLookup(c) == TRUE

(* _lookup_request_parts: schema version and digest of the query. *)
FitsLookup(c) == c.release = release /\ c.query = query

(* _validate_listing_continuation; the run has its target for good. *)
FitsListing(c) == c.release = release

Fits(c) == c = Nothing \/ (IF walk \in Lookups THEN FitsLookup(c) ELSE FitsListing(c))

RequestOf(c) ==
    IF c = Nothing THEN [query |-> query, token |-> 1, page |-> FirstPage]
    ELSE [query |-> query, token |-> c.token, page |-> c.page]

(* The request is rendered; a cursor that does not fit is a ValueError, or *)
(* pixiv's AdapterFailure, before anything is sent.                        *)
BeginPage ==
    /\ ending = "open" /\ request = Nothing
    /\ IF Fits(cursor) THEN request' = RequestOf(cursor) /\ UNCHANGED ending
       ELSE /\ ending' = IF walk = "pixiv_listing" THEN "malformed_response" ELSE "refused"
            /\ UNCHANGED request
    /\ attempt' = 0
    /\ stale' = IF access = "stale" THEN 1 ELSE 0
    /\ UNCHANGED <<siteVars, query, release, cursor, seen, again, blank, access>>

PageFails(outcome) ==
    /\ ending' = outcome
    /\ request' = Nothing
    /\ UNCHANGED <<query, release, cursor, seen, again, blank>>

(* _exchange_token, or access_token of pixiv. *)
ExchangeToken ==
    /\ request # Nothing /\ walk \in TokenWalks /\ access = "none"
    /\ access' = "valid"
    /\ UNCHANGED <<siteVars, keptVars, request, attempt, stale>>

ExchangeFails(outcome) ==
    /\ request # Nothing /\ walk \in TokenWalks /\ access = "none"
    /\ faults > 0 /\ faults' = faults - 1
    /\ PageFails(outcome)
    /\ UNCHANGED <<walk, rude, site, stood, removed, changes, access, attempt, stale>>

(* _authorized_get of Sankaku gives a token that is no good up once, and   *)
(* gets another; pixiv keeps its token for as long as the process lives.   *)
Unauthorized ==
    /\ request # Nothing /\ access = "stale"
    /\ \/ /\ walk = "sankaku_listing" /\ attempt = 0
          /\ access' = "none" /\ attempt' = 1
          /\ UNCHANGED <<keptVars, request>>
       \/ /\ walk = "pixiv_listing" \/ attempt = 1
          /\ PageFails("authentication_required")
          /\ UNCHANGED <<access, attempt>>
    /\ UNCHANGED <<siteVars, stale>>

(* The caller stores the posts and the cursor of a page together. *)
PageAccepted(a, page) ==
    /\ cursor' = page.next
    /\ seen' = [seen EXCEPT ![request.query][request.token] = @ \cup page.posts]
    /\ again' = (again \/ seen[request.query][request.token] \cap page.posts # {})
    /\ blank' = (blank \/ a.body = "blank")
    /\ ending' = IF page.next = Nothing THEN "complete" ELSE "open"
    /\ request' = Nothing

ReceivePage(a) ==
    /\ LET page == Normalize(request, a)
       IN  IF page.outcome = "success"
           THEN PageAccepted(a, page) /\ UNCHANGED <<query, release>>
           ELSE PageFails(page.outcome)
    /\ UNCHANGED <<access, attempt, stale>>

Sent == request # Nothing /\ (walk \in TokenWalks => access = "valid")

ReceiveAnswer ==
    /\ Sent
    /\ \E a \in AnswersTo(request) : ReceivePage(a)
    /\ UNCHANGED siteVars

ReceiveFault ==
    /\ Sent
    /\ faults > 0 /\ faults' = faults - 1
    /\ \E a \in FaultyAnswers : ReceivePage(a)
    /\ UNCHANGED <<walk, rude, site, stood, removed, changes>>

(* The caller stops between two pages, its budget spent. *)
Pause ==
    /\ ending = "open" /\ request = Nothing /\ cursor # Nothing
    /\ faults > 0 /\ faults' = faults - 1
    /\ ending' = "paused"
    /\ UNCHANGED <<walk, rude, site, stood, removed, changes, query, release, cursor, seen,
                   again, blank, fetchVars>>

Resumable ==
    \/ ending = "paused"
    \/ walk \in Lookups /\ ending \in {"rate_limited", "transient_provider"}

(* Another process goes on: it may run a later release, and the seed of a  *)
(* lookup may have other material by now.                                  *)
WalkOn(later, q) ==
    /\ Resumable
    /\ walk \notin Lookups => q = query
    /\ ending' = "open"
    /\ access' = "none"
    /\ query' = q
    /\ release' = IF later THEN release + 1 ELSE release
    /\ UNCHANGED <<siteVars, cursor, seen, again, blank, request, attempt, stale>>

SiteStep ==
    \/ \E x \in SitePost : PostAdded(x) \/ PostRemoved(x)
    \/ TokenGoesStale

FetchStep ==
    \/ BeginPage \/ ExchangeToken \/ Unauthorized \/ ReceiveAnswer

CallerStep ==
    \/ Pause
    \/ ReceiveFault
    \/ \E outcome \in {"authentication_required", "transient_provider"} : ExchangeFails(outcome)
    \/ \E later \in BOOLEAN, q \in Query : WalkOn(later, q)

WalkNext == SiteStep \/ FetchStep \/ CallerStep

(* The loops of the callers ask for page after page. *)
WalkSpec == WalkInit /\ [][WalkNext]_walkVars /\ WF_walkVars(FetchStep)

-----------------------------------------------------------------------------
(* Properties *)

Covered ==
    \A t \in DOMAIN TokensOf(query) : (TokensOf(query)[t] \cap stood) \subseteq seen[query][t]

(* A walk that ended by itself has every post that was there all the time, *)
(* whatever was added or removed, refused, paused or upgraded on the way.  *)
(* Where pages are counted from the top, provided nothing above was        *)
(* removed; not where the code itself passes posts over: pages of a        *)
(* Gelbooru lookup (LookupMissesNothing), and a Gelbooru listing after an  *)
(* answer without a body.                                                  *)
CompleteMissesNothing ==
    /\ ending = "complete"
    /\ walk \in Keyset \/ ~ removed
    /\ walk # "gelbooru_lookup"
    /\ ~ blank
    => Covered

(* What is older than a boundary comes once, and a site that repeats posts *)
(* is found out by e621's adapter.                                         *)
KeysetReadsOnce == walk \in E621Walks \/ (walk \in Keyset /\ ~ rude) => ~ again

(* A walk reads what there is, and reads it once.                          *)
WalkIsExact == CompleteMissesNothing /\ KeysetReadsOnce

(* A walk comes to an end although its site gains and loses posts: every   *)
(* cursor lies behind the one before.  Danbooru's relies on the site for   *)
(* that, e621's does not.                                                  *)
WalkEnds == (rude /\ walk \notin E621Walks) \/ <>[](ending # "open")

(* A lookup of Gelbooru reads page after page of what matches: "pid must   *)
(* advance exactly one committed page past last_pid".                      *)
LookupMissesNothing ==
    walk = "gelbooru_lookup" /\ ending = "complete" /\ ~ removed => Covered

=============================================================================
