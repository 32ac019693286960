------------------------------ MODULE Cookies ------------------------------
(***************************************************************************)
(* The cookie jar of fortrust-storage (cookies.rs): which cookies are       *)
(* accepted under the policy, and which a request may read, with cookies    *)
(* kept apart by the top-level site they were set under.                    *)
(*                                                                         *)
(* A host is the sequence of its labels, the last one first, a path the     *)
(* sequence of its characters.  Domains with a leading dot are left out     *)
(* (same_registrable_domain compares the empty label before it as well).    *)
(* The jar is never written to the disk.                                    *)
(***************************************************************************)
EXTENDS Naturals, Sequences, FiniteSets, SequencesExt, Functions

CONSTANTS
    Hosts,          \* of cookies and of requests
    Sites,          \* the hosts that pages are loaded from
    Names,          \* of cookies
    Paths,
    CookieValues,   \* records of hostOnly, secure and expires (0 for never)
    TrackerHosts, TrackerNames, \* what looks_like_tracker has built in
    MaxCookies,     \* bound: cookies in the jar
    MaxTime         \* bound: of the clock

VARIABLES
    jar,        \* from keys to values
    top,        \* top_level_domain
    policy,
    isolate,    \* isolate_first_party
    clock

cookieVars == <<jar, top, policy, isolate, clock>>

NoHost == <<>>

Policies == {"AcceptAll", "BlockAll", "BlockThirdParty", "RejectTrackers"}

Key(scope, domain, name, path) ==
    [scope |-> scope, domain |-> domain, name |-> name, path |-> path]

\* What the jar keeps of a cookie; the top-level site it was set under, whether
\* isolation was on and whether third parties were blocked then are history.
Kept(value) ==
    [hostOnly |-> value.hostOnly, secure |-> value.secure, expires |-> value.expires,
     under |-> top, isolated |-> isolate, blocking |-> policy = "BlockThirdParty"]

CookiesInit ==
    /\ jar = <<>>
    /\ top = NoHost
    /\ policy = "BlockThirdParty"
    /\ isolate = TRUE
    /\ clock = 1

\* A cookie of a domain is for the domain and the hosts below it, hostOnly or not.
DomainMatches(domain, host) == IsPrefix(domain, host)

PathMatches(path, requested) == IsPrefix(path, requested)

\* The last labels of the two, as many as the shorter has, are the same.
SameRegistrableDomain(a, b) ==
    IF Len(a) < 2 \/ Len(b) < 2 THEN a = b
    ELSE IsPrefix(a, b) \/ IsPrefix(b, a)

IsThirdParty(domain, host) ==
    IF top # NoHost THEN ~ SameRegistrableDomain(domain, host)
    ELSE ~ DomainMatches(domain, host)

LooksLikeTracker(domain, name) == domain \in TrackerHosts \/ name \in TrackerNames

ShouldAccept(key, host) ==
    CASE policy = "AcceptAll" -> TRUE
      [] policy = "BlockAll" -> FALSE
      [] policy = "BlockThirdParty" -> ~ (top # NoHost /\ IsThirdParty(key.domain, host))
      [] policy = "RejectTrackers" -> ~ LooksLikeTracker(key.domain, key.name)

\* Mutant of Scope: one jar for all sites.
ScopeOfNone(hostOnly) == NoHost

\* The site whose jar a cookie goes to, none for a jar of all.
Scope(hostOnly) == IF isolate /\ ~ hostOnly THEN top ELSE NoHost

\* The answer of a request to host sets a cookie.
SetCookie(domain, name, path, value, host) ==
    LET key == Key(Scope(value.hostOnly), domain, name, path) IN
    /\ ShouldAccept(key, host)
    /\ Cardinality(DOMAIN jar \union {key}) <= MaxCookies
    /\ jar' = [k \in DOMAIN jar \union {key} |-> IF k = key THEN Kept(value) ELSE jar[k]]
    /\ UNCHANGED <<top, policy, isolate, clock>>

Expired(value) == value.expires # 0 /\ value.expires < clock

\* A cookie kept apart for another site, or for none.
ForeignScope(key, value) ==
    isolate /\ ~ value.hostOnly /\ top # NoHost /\ key.scope # top

\* The keys of the cookies a request may read.
GetForUrl(https, host, path) ==
    {k \in DOMAIN jar :
        /\ ~ Expired(jar[k])
        /\ jar[k].secure => https
        /\ ~ ForeignScope(k, jar[k])
        /\ DomainMatches(k.domain, host)
        /\ PathMatches(k.path, path)}

Forget(keys) ==
    /\ jar' = Restrict(jar, DOMAIN jar \ keys)
    /\ UNCHANGED <<top, policy, isolate, clock>>

RemoveCookie(key) == Forget({key})

\* The domain is compared with the whole key: scoped cookies of it stay.
RemoveForDomain(domain) == Forget({k \in DOMAIN jar : k.scope = NoHost /\ k.domain = domain})

RemoveForTopLevel(site) == Forget({k \in DOMAIN jar : k.scope = site})

ClearCookies == Forget(DOMAIN jar)

SetTopLevelDomain(site) == top' = site /\ UNCHANGED <<jar, policy, isolate, clock>>
SetPolicy(p) == policy' = p /\ UNCHANGED <<jar, top, isolate, clock>>
SetIsolate(on) == isolate' = on /\ UNCHANGED <<jar, top, policy, clock>>

Ticks == clock < MaxTime /\ clock' = clock + 1 /\ UNCHANGED <<jar, top, policy, isolate>>

CookiesNext ==
    \/ \E domain \in Hosts, name \in Names, path \in Paths,
          value \in CookieValues, host \in Hosts : SetCookie(domain, name, path, value, host)
    \/ \E key \in DOMAIN jar : RemoveCookie(key)
    \/ \E domain \in Hosts : RemoveForDomain(domain)
    \/ \E site \in Sites : RemoveForTopLevel(site)
    \/ ClearCookies
    \/ \E site \in Sites \union {NoHost} : SetTopLevelDomain(site)
    \/ \E p \in Policies : SetPolicy(p)
    \/ \E on \in BOOLEAN : SetIsolate(on)
    \/ Ticks

CookiesSpec == CookiesInit /\ [][CookiesNext]_cookieVars

-----------------------------------------------------------------------------
\* First-party isolation (get_for_url): while it is on, a request made under a
\* top-level site reads, besides cookies of one host, the cookies set under that
\* site and no other; and it does read those that were kept apart for it and
\* match, whatever was set, removed or switched under other sites in between.
CookiesIsolated ==
    isolate /\ top # NoHost =>
        \A host \in Hosts, path \in Paths :
            LET read == GetForUrl(TRUE, host, path) IN
            /\ \A k \in read : jar[k].hostOnly \/ jar[k].under = top
            /\ \A k \in DOMAIN jar :
                  (/\ jar[k].under = top /\ jar[k].isolated /\ ~ Expired(jar[k])
                   /\ DomainMatches(k.domain, host) /\ PathMatches(k.path, path)) => k \in read

\* The comment of should_accept (cookies.rs:230): a third-party cookie is "blocked
\* when the cookie is on a different registrable domain than the top-level site (or
\* the request)". The code never compares it with the top-level site.
ThirdPartyBlocked ==
    \A k \in DOMAIN jar :
        jar[k].blocking /\ jar[k].under # NoHost =>
            SameRegistrableDomain(k.domain, jar[k].under)
=============================================================================
