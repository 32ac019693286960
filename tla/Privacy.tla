------------------------------- MODULE Privacy -------------------------------
(***************************************************************************)
(* The privacy decision of fortrust-core (privacy.rs) with the upgrade to  *)
(* https of fortrust-privacy: what becomes of a request before it is sent. *)
(*                                                                         *)
(* A host is the sequence of its labels; a url is its scheme, its host and *)
(* the names of its query parameters.  The counters of the shield panel    *)
(* are left out.                                                           *)
(***************************************************************************)
EXTENDS Naturals, Sequences, SequencesExt

CONSTANTS
    TrackerHosts, AdHosts,      \* the built-in lists: sets of hosts
    TrackingParams,             \* parameters that only serve tracking
    Numbers,                    \* the labels that are numbers
    Settings                    \* PrivacyConfig

ASSUME SettingsAssumption ==
    Settings \in [blockAds : BOOLEAN, blockTrackers : BOOLEAN,
                  stripParams : BOOLEAN, httpsOnly : BOOLEAN]

NoUrl == [scheme |-> "none", host |-> <<>>, params |-> {}]

ResourceTypes == {"document", "script", "image", "stylesheet", "xhr", "media", "font", "other"}

ReferrerPolicies == {"NoReferrer", "SameOrigin", "StrictOrigin", "Origin",
                     "StrictOriginWhenCrossOrigin"}

Schemes == {"http", "https", "fortrust", "about"}

\* A host is on a list when it, or a domain it belongs to, is.
HostMatches(hosts, host) == \E h \in hosts : IsSuffix(h, host)

IsLocalName(host) == host = <<"localhost">>
IsAddress(host)   == Len(host) = 4 /\ ToSet(host) \subseteq Numbers

\* The two last labels, or all of an address; hosts of one key are one site.
SiteKey(host) ==
    IF IsLocalName(host) \/ IsAddress(host) \/ Len(host) < 2 THEN host
    ELSE SubSeq(host, Len(host) - 1, Len(host))

ThirdParty(url, top) ==
    top # NoUrl /\ url.host # <<>> /\ top.host # <<>> /\ SiteKey(url.host) # SiteKey(top.host)

\* HttpsUpgrader::evaluate leaves what looks like a private address alone.
NotUpgradable(host) ==
    \/ IsLocalName(host)
    \/ host = <<"127", "0", "0", "1">>
    \/ Len(host) > 1 /\ host[1] \in {"10", "172"}
    \/ Len(host) > 2 /\ host[1] = "192" /\ host[2] = "168"

Upgraded(url) ==
    IF Settings.httpsOnly /\ url.scheme = "http" /\ ~ NotUpgradable(url.host)
    THEN [url EXCEPT !.scheme = "https"] ELSE url

Stripped(url) ==
    IF Settings.stripParams THEN [url EXCEPT !.params = @ \ TrackingParams] ELSE url

Mixed(c) == c.kind # "document" /\ c.url.scheme = "http" /\ c.top.scheme = "https"

\* The reason for which PrivacyEngine::inspect blocks the request c, or none.
BlockReason(c) ==
    IF c.url.scheme \notin Schemes THEN "UnsupportedScheme"
    ELSE IF Mixed(c) THEN "MixedContent"
    ELSE IF Settings.blockTrackers /\ HostMatches(TrackerHosts, c.url.host) THEN "TrackerDomain"
    ELSE IF Settings.blockAds /\ HostMatches(AdHosts, c.url.host) THEN "AdDomain"
    ELSE "none"

\* What is asked for in its place.
EffectiveUrl(c) == Stripped(Upgraded(c.url))

-----------------------------------------------------------------------------
(* compute_referer.                                                        *)

SameOrigin(a, b) == a.scheme = b.scheme /\ a.host = b.host
OriginOf(url) == [url EXCEPT !.params = {}]

Referer(url, top, policy) ==
    IF top = NoUrl THEN NoUrl
    ELSE CASE policy = "NoReferrer" -> NoUrl
           [] policy = "SameOrigin" -> IF SameOrigin(url, top) THEN top ELSE NoUrl
           [] policy = "StrictOrigin" ->
                IF url.scheme = "https" /\ SameOrigin(url, top) THEN OriginOf(top) ELSE NoUrl
           [] policy = "Origin" -> OriginOf(top)
           [] OTHER ->      \* StrictOriginWhenCrossOrigin
                IF SameOrigin(url, top) THEN top
                ELSE IF top.scheme = "https" THEN OriginOf(top) ELSE NoUrl
=============================================================================
