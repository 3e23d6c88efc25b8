-------------------------- MODULE LocatorAuthority --------------------------
(***************************************************************************)
(* Proof that from_str keeps the authority of a URL, for every value of   *)
(* the constants: a userinfo becomes the node id under every scheme but   *)
(* lnpt, or the text is refused, and a port becomes the port.  The proof follows the scheme dispatch of     *)
(* TryFrom<Url>; the one branch that builds a locator without a node id  *)
(* from a text with an authority, the lnpz socket path, is reached only  *)
(* without a host, and the URL parse refuses a userinfo or a port there. *)
(***************************************************************************)
EXTENDS LocatorCanonical

(* The property of one parse: when result r of parsing text t is a       *)
(* locator, t's userinfo (None when absent) is its node id unless t is an *)
(* lnpt text, and t's port is its port.                                   *)
KeepsAuthority(t, r) ==
    IsOk(r) =>
        /\ t.user # None /\ t.scheme # "lnpt" => NodeId(r.val) = t.user
        /\ t.port # None => Port(r.val) = t.port

(* The same of a parsed URL u, whose username() is Empty when absent. *)
UrlKeepsAuthority(u, r) ==
    IsOk(r) =>
        /\ u.user # Empty /\ u.scheme # "lnpt" => NodeId(r.val) = u.user
        /\ u.port # None => Port(r.val) = u.port

(* Every branch of TryFrom<Url> keeps the username and the port of a URL *)
(* whose authority has a host whenever it has a userinfo or a port.       *)
LEMMA TryFromUrlKeeps ==
    ASSUME NEW u, u.host = None => u.user = Empty /\ u.port = None
    PROVE  UrlKeepsAuthority(u, TryFromUrl(u))
<1> USE DEF UrlKeepsAuthority, IsOk, Ok, Err, NodeId, Port, Components, Locator
<1>1. CASE u.scheme \in {"lnp", "lnph", "lnpws"}
  BY <1>1 DEF TryFromUrl, FromInetUrl
<1>2. CASE u.scheme = "lnpu"
  BY <1>2 DEF TryFromUrl, FromUdpUrl
<1>3. CASE u.scheme = "lnpz"
  <2>1. TryFromUrl(u) = FromZmqUrl(u)
    BY <1>3 DEF TryFromUrl
  <2>2. CASE u.host = None
    BY <2>1, <2>2, EmptyFacts DEF FromZmqUrl
  <2>3. CASE u.host # None
    BY <2>1, <2>3, EmptyFacts DEF FromZmqUrl
  <2>4. QED
    BY <2>2, <2>3
<1>4. CASE u.scheme = "lnpt"
  BY <1>4 DEF TryFromUrl, FromTextUrl
<1>5. CASE u.scheme \notin {"lnp", "lnph", "lnpws", "lnpu", "lnpz", "lnpt"}
  BY <1>5 DEF TryFromUrl
<1>6. QED
  BY <1>1, <1>2, <1>3, <1>4, <1>5

(* The URL parse keeps the userinfo and the port, and refuses an         *)
(* authority that has them without a host: what TryFrom<Url> is given   *)
(* meets the hypothesis of TryFromUrlKeeps.                               *)
LEMMA ParseUrlKeeps ==
    ASSUME NEW t \in Texts,
           t.auth = Empty => t.user = None /\ t.host = None /\ t.port = None
    PROVE  KeepsAuthority(t, ParseUrl(t))
<1> DEFINE u == [t EXCEPT !.user = IF t.user = None THEN Empty ELSE t.user]
<1>1. CASE ~IsOk(UrlParse(t))
  BY <1>1 DEF ParseUrl, KeepsAuthority
<1>2. CASE IsOk(UrlParse(t))
  <2>1. ~(t.auth = "//" /\ t.host = None /\ (t.user # None \/ t.port # None))
    BY <1>2 DEF UrlParse, IsOk, Err
  <2>2. UrlParse(t) = Ok(u)
    BY <1>2 DEF UrlParse, IsOk, Err
  <2>3. /\ u.host = t.host /\ u.port = t.port /\ u.scheme = t.scheme
        /\ t.user # None => u.user = t.user /\ u.user # Empty
        /\ t.user = None => u.user = Empty
    BY EmptyFacts, SessionAssumption DEF Texts
  <2>4. u.host = None => u.user = Empty /\ u.port = None
    BY <2>1, <2>3 DEF Texts
  <2>5. UrlKeepsAuthority(u, TryFromUrl(u))
    BY <2>4, TryFromUrlKeeps
  <2>6. QED
    BY <2>2, <2>3, <2>5 DEF ParseUrl, KeepsAuthority, UrlKeepsAuthority, IsOk, Ok
<1>3. QED
  BY <1>1, <1>2

(* from_str keeps the authority of every text it may be given, the bare  *)
(* "<node-id>@<host>[:<port>]" it prefixes with lnp:// included.          *)
LEMMA FromStrKeeps ==
    ASSUME NEW t \in ParseableTexts
    PROVE  KeepsAuthority(t, FromStr(t))
<1>1. t \in Texts
      /\ (t.auth = Empty => t.user = None /\ t.host = None /\ t.port = None)
  BY DEF ParseableTexts
<1>2. CASE t.scheme \in Schemes
  BY <1>1, <1>2, ParseUrlKeeps DEF FromStr
<1>3. CASE t.scheme = None
  <2> DEFINE s == [t EXCEPT !.scheme = "lnp", !.auth = "//"]
  <2>1. s \in Texts /\ s.auth = "//" /\ s.user = t.user /\ s.port = t.port
        /\ s.scheme # "lnpt" /\ t.scheme # "lnpt"
    BY <1>1, <1>3, UrlAssumption DEF Texts, Schemes
  <2>2. s.auth # Empty
    BY <2>1, EmptyFacts
  <2>3. KeepsAuthority(s, ParseUrl(s))
    BY <2>1, <2>2, ParseUrlKeeps
  <2>4. FromStr(t) = ParseUrl(s)
    BY <1>3, UrlAssumption DEF FromStr
  <2>5. QED
    BY <2>1, <2>3, <2>4 DEF KeepsAuthority
<1>4. CASE t.scheme \notin Schemes \cup {None}
  BY <1>4 DEF FromStr, KeepsAuthority, IsOk, Err
<1>5. QED
  BY <1>2, <1>3, <1>4

LEMMA IInvKeepsAuthority == IInv => ParsedKeepsAuthority
<1> SUFFICES ASSUME IInv, ParsedOk PROVE KeepsAuthority(text, out.res)
  BY DEF ParsedKeepsAuthority, KeepsAuthority, ParsedOk
<1>1. text \in ParseableTexts /\ out.res = FromStr(text)
  BY DEF IInv, TypeOK, CallResults, ParsedOk
<1>2. QED
  BY <1>1, FromStrKeeps

(* from_str keeps the authority of a URL in every run of the caller, for *)
(* every value of the constants: a text with a userinfo, under any scheme *)
(* but lnpt, never becomes a locator with another node id or none, and a *)
(* text with a port never loses it.                                            *)
THEOREM ParsedKeepsAuthorityTheorem == Spec => []ParsedKeepsAuthority
BY InitIInv, NextIInv, IInvKeepsAuthority, PTL DEF Spec

=============================================================================
