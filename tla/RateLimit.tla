----------------------------- MODULE RateLimit ------------------------------
(***************************************************************************)
(* The in-memory sliding-window limiter and the bucket its callers count a *)
(* request in.  A request crosses the deployment's own proxies, each of    *)
(* which appends the address it was reached from to X-Forwarded-For; what  *)
(* the client itself put there stands to the left.  An edge (Cloudflare)   *)
(* overwrites the trusted header with the address the request comes from;  *)
(* without one the origin sees what the client sent.                       *)
(***************************************************************************)
EXTENDS Integers, FiniteSets, FiniteSetsExt, Sequences

CONSTANTS
    Addresses,          \* non-empty header values
    Clients,            \* addresses requests really come from
    Absent,             \* no header, or a blank one
    Headers,            \* trusted-header values a client may send
    Forged,             \* X-Forwarded-For lists a client may send
    Proxy,              \* the address an inner proxy appends
    Deployments,        \* environments and the proxies really in front
    Window,             \* windowMs
    MaxHits,            \* max
    SweepThreshold,
    MaxTime             \* bound: the clock stops here

ASSUME RateConstants ==
    /\ Window \in Nat /\ MaxHits \in Nat /\ MaxTime \in Nat
    /\ Absent \notin Addresses /\ Clients \subseteq Addresses /\ Proxy \in Addresses
    /\ Headers \subseteq Addresses \cup {Absent} /\ Forged \subseteq Seq(Addresses)
    /\ Deployments \subseteq [header : BOOLEAN, hops : Nat, edge : BOOLEAN, proxies : Nat]

Buckets == Addresses \cup {"unknown"}

VARIABLES
    hits,       \* the limiter's map, from key to the times it counted
    time,
    deploy,     \* header: MINISTER_CLIENT_IP_HEADER names a header;
                \* hops: trustedProxyHops(); edge, proxies: what is in front
    allowedAt,  \* history: when each bucket let requests through
    passed      \* history: <<client, bucket>> of the requests let through

rateVars == <<hits, time, deploy, allowedAt, passed>>

RateInit ==
    /\ hits = <<>>
    /\ time = 0
    /\ deploy \in Deployments
    /\ allowedAt = [k \in Buckets |-> <<>>]
    /\ passed = {}

(* The headers as the origin sees them.                                    *)
TrustedHeader(c, sent) == IF deploy.edge THEN c ELSE sent

XForwardedFor(c, forged) ==
    IF deploy.proxies = 0 THEN forged
    ELSE forged \o <<c>> \o [i \in 1..(deploy.proxies - 1) |-> Proxy]

(* Mutated form: one entry too far to the left.                            *)
MutClientIpFrom(value, xff) ==
    IF deploy.header /\ value # Absent THEN value
    ELSE IF deploy.hops > 0 /\ xff # <<>> THEN xff[Max({1, Len(xff) - deploy.hops})]
    ELSE "unknown"

(* The trusted header if there is one, else the entry the outermost own    *)
(* proxy wrote or the leftmost there is, else one bucket for all.          *)
clientIpFrom(value, xff) ==
    IF deploy.header /\ value # Absent THEN value
    ELSE IF deploy.hops > 0 /\ xff # <<>> THEN xff[Max({1, Len(xff) - deploy.hops + 1})]
    ELSE "unknown"

LiveHits(list, now) ==
    LET live[i \in 0..Len(list)] ==
          IF i = 0 THEN <<>>
          ELSE IF list[i] + Window > now THEN Append(live[i - 1], list[i])
          ELSE live[i - 1]
    IN  live[Len(list)]

sweep(h, now) ==
    [k \in {j \in DOMAIN h : LiveHits(h[j], now) # <<>>} |-> LiveHits(h[k], now)]

With(h, k, list) == [j \in DOMAIN h \cup {k} |-> IF j = k THEN list ELSE h[j]]

(* A refusal keeps the live hits and counts nothing.                       *)
Check(c, sent, forged) ==
    LET key == clientIpFrom(TrustedHeader(c, sent), XForwardedFor(c, forged))
        swept == IF Cardinality(DOMAIN hits) > SweepThreshold THEN sweep(hits, time) ELSE hits
        live == IF key \in DOMAIN swept THEN LiveHits(swept[key], time) ELSE <<>>
    IN  /\ IF Len(live) >= MaxHits
           THEN /\ hits' = With(swept, key, live)
                /\ UNCHANGED <<allowedAt, passed>>
           ELSE /\ hits' = With(swept, key, Append(live, time))
                /\ allowedAt' = [allowedAt EXCEPT ![key] = Append(@, time)]
                /\ passed' = passed \cup {<<c, key>>}
        /\ UNCHANGED <<time, deploy>>

Tick ==
    /\ time < MaxTime
    /\ time' = time + 1
    /\ UNCHANGED <<hits, deploy, allowedAt, passed>>

RateNext ==
    \/ \E c \in Clients, h \in Headers, f \in Forged : Check(c, h, f)
    \/ Tick

-----------------------------------------------------------------------------
(* Properties.                                                             *)

(* What lib/rate-limit.ts demands of a deployment: a trusted header is one *)
(* the edge overwrites, and the trusted hops are proxies that are there.   *)
Trusted == IF deploy.header THEN deploy.edge ELSE deploy.hops <= deploy.proxies

(* No bucket lets more than max requests through within a window, whenever *)
(* the map is swept, and in a deployment configured as the module demands  *)
(* a client has one bucket, whatever it writes into the trusted header and *)
(* into X-Forwarded-For: so it is let through no more than max times       *)
(* within a window (createRateLimiter and clientIpFrom,                    *)
(* lib/rate-limit.ts).                                                     *)
WindowHonoured ==
    /\ \A k \in Buckets : \A i \in DOMAIN allowedAt[k] :
         Cardinality({j \in DOMAIN allowedAt[k] :
                        j >= i /\ allowedAt[k][j] < allowedAt[k][i] + Window}) <= MaxHits
    /\ Trusted => \A p, q \in passed : p[1] = q[1] => p[2] = q[2]
=============================================================================
