# TLA+ models of NodeLocator

This project models `src/src/lnp/session/node_locator.rs`. NodeLocator is the value type that
names an LNP node, or a local socket, by URL. The project checks the models with TLC and proves
the main results with TLAPS.

The code is a pure, synchronous value type. Nothing runs concurrently, nothing is persisted and
nothing waits, so there are no interleavings, crashes or liveness to model. What can go wrong
lies in how its operations compose:

- a locator serialized by `to_url_string` and parsed back by `from_str`;
- a locator used as a hash key;
- a locator formatted with `Display`;
- a locator converted to a stricter address type and back.

The model is a caller that performs these calls in any order. Each property relates the result
of one call to the inputs of earlier calls.

## Parts of the system and the modules

| Part of the code | Module | How it is modelled |
|---|---|---|
| `enum NodeLocator` (47-130), `components` and accessors (289-372), `with_port` (191-212), `url_scheme` (375-390) | `NodeLocator` | A locator is a record `[kind, id, addr, port, path, api]`. A slot that the variant lacks holds `None`. `LocatorsOf(K, R)` is the set of locators of the variants `K` with the ApiTypes `R`. |
| `PartialEq` (132-177) and `Hash` (181-185) | `NodeLocator` | `Eq` compares the fields, using `ApiEq` for the api (`PeerListening` and `PeerConnecting` are merged). `Hash(v)` is the text that `to_url_string` writes, because that is what gets hashed. |
| `to_url_string` (217-280) | `NodeLocator` | `ToUrlString(v)` returns the URL parts that `format!` writes, in order: scheme, `//`, userinfo, host, port, path, `?api=`, `#fragment`. The host is written with `Display`, so an IPv6 address has no brackets. |
| `FromStr` (533-548), `TryFrom<Url>` (555-647), `ParseError` (396-445) | `LocatorUrl` | `FromStr` adds the `lnp://` prefix. `UrlParse` models what the url crate decides. `TryFromUrl` is split into one operator per scheme branch, and each tests its error paths in the code's order. |
| `TryFrom<NodeLocator> for LocalAddr` (658-681) | `LocatorConvert` | `ToLocalAddr` has one arm per arm of the match. |
| NodeAddr conversions (`node_addr.rs`, not in this repository) | `LocatorConvert` | `ToNodeAddr` and `FromNodeAddr` are modelled from the spec (4.4) and the tests of node_locator.rs. They are marked spec_modelled. |
| A caller of the API | `LocatorSession` | See the next section. |
| `Debug` (478-530), `src/addr/src/lib.rs` | none | Pure formatting and re-exports. |

Data is abstracted to what the properties distinguish:

- Public keys, addresses, paths and names are model values.
- A text is a record of URL parts, not a string.
- `BadKey` and `BadHost` stand for a userinfo or host that does not parse.
- `Bracketed(a)` is an IPv6 literal in brackets.
- `OtherScheme` is an unknown scheme.
- `Empty` is the empty `String`. A missing path and a missing username are empty strings in the url crate.
- An api token may be written in upper case.

The url crate is modelled by what it decides for these texts:

- an unbracketed IPv6 host is rejected, and so is a bracketed host that is not IPv6;
- an authority with a userinfo or a port but an empty host is rejected (`lnpz://k@/p`, `lnp://:24`);
- `host_str()` keeps the brackets;
- `username()` is empty when there is none.

### LocatorSession: the caller

The caller holds four variables:

- `loc`: a locator;
- `text`: a text;
- `origin`: the locator that `text` was serialized from, or `None` when the text was received from outside;
- `out`: the result of the last call.

Each action is one whole call:

| Action | Code |
|---|---|
| `Construct(v)` | a variant constructor |
| `SetPort(p)` | `with_port` |
| `Serialize` | `to_url_string` |
| `Receive(t)` | a string from outside, one of `Inputs` |
| `Parse` | `from_str` on the held text |
| `Adopt` | keeping the locator that `from_str` returned |
| `Display(alt)` | `{}` calls `Url::from`, which has an `expect`. `{:#}` has an `expect` on `socket_name` |
| `IntoLocalAddr`, `IntoNodeAddr`, `OutOfNodeAddr` | the conversions |

The ZMQ and websockets variants sit behind cargo features. The model builds them all, as a build
with every feature does.

## Properties and runs

Every run uses the instance in `MC_LocatorSession.tla`:

- one key, one IPv4 address, one onion address, and one IPv6 address where the run needs it;
- one path and one inproc name;
- one port.

Only equality of these values matters to the code, so one of each reaches every branch of every
operation. The received texts (`MCInputs`) were chosen to reach every error path of `try_from`:

- every scheme;
- a bare `key@host:port`;
- a bad key and a bad host;
- an api token in upper case, an unknown token and a missing one;
- an lnpt URL with a key in the userinfo, and one with a port;
- an unknown scheme, with and without `//`;
- an lnpt URL and an lnpz URL with a userinfo that is no key, and authorities with a userinfo or a port but no host.

### The passing run: `main` (MC_LocatorSession.cfg)

This run checks all variants and all ApiTypes, including every parse and display path. It
reaches 50,908 distinct states in about 20 s and fires every action. It has no IPv6 address, because
the violation runs below show that IPv6 texts fail to parse. It checks four invariants and one action property:

- `EqHashContract`: equal locators are equal both ways round and have the same hash. `Eq` merges the listening and connecting ZMQ roles, while `Hash` hashes the text, so the two could disagree.
- `ParsedCanonical`: when `from_str` accepts the text that a locator was serialized to, the parsed locator serializes to the same text. This holds even though the decode merges roles: `p2p` always becomes `PeerConnecting` and `rpc` becomes `Client`.
- `ParsedKeepsAuthority`: a parsed URL with a userinfo yields a locator whose node id is that userinfo, valid key or not, under every scheme but lnpt. lnpt names its node by the host. A parsed URL with a port yields that port. Without the lnpz arm at 612, which refuses a non-empty username that is no key, `lnpz://<bad>@<ip>` would become an unencrypted locator. The property also depends on the order of the other arms (611-627), and on the url crate refusing a userinfo or a port without a host.
- `WithPortTakesPort`: `with_port(p)` of any locator the caller may hold sets the port, and keeps the address, when the locator has an internet address. It returns any other locator unchanged. `with_port` lists its arms one by one, several behind cfg features, and ends in `me => me`, so a missing arm would silently keep the old port.
- `AdoptKeepsEndpoint` (action property): when the caller adopts what `from_str` returned for the text of the locator it holds, the new locator is the same variant with the same node id, address, port and socket name. Only the ZMQ role may change, and then only to a role with the same api token (`Server` to `Client`, `PeerListening` to `PeerConnecting`). `ParsedCanonical` alone does not give this: it compares texts, not endpoints.

Each property has a mutant, a plausible bug in the mapped code, which TLC catches:

| Mutant | Caught by |
|---|---|
| `with_port` without its Udp arm, so Udp falls to `me => me` | `WithPortTakesPort` |
| `api_eq` merging the roles in one direction only | `EqHashContract` |
| `sub` decoded as `EsbService` | `ParsedCanonical` |
| the lnpz match without the arm refusing a non-empty username that is no key (612) | `ParsedKeepsAuthority` |
| the lnpz match with the unencrypted arm before the encrypted one | `AdoptKeepsEndpoint` (an encrypted locator comes back without its node id) |

### The violation runs: what the code does against the spec

Each violation run checks one property that the spec states. TLC finds a counterexample for each:

| Run | Property | What TLC finds |
|---|---|---|
| `rt_posix` | `RoundTrip` (spec 8) | `lnp:<path>` fails with InvalidPubkey. The lnp branch (563-568) has no Posix case. |
| `rt_ipv6` | `RoundTrip` | An IPv6 `Udp` locator is written without brackets (225), so `Url::from_str` rejects the text. |
| `rt_server` | `RoundTrip` | A `Server` locator is written as `rpc` and parsed back as a `Client` (603). |
| `rt_empty_ipc` | `RoundTrip` | `ZmqIpc("")` gives `lnpz:?api=..`, which parses to InprocRequireZmqContext (622). |
| `unknown_scheme` | `UnknownSchemeReported` (spec 4.2) | The `lnp://` prefix (538-544) makes `UnknownUrlScheme` unreachable from `from_str`. |
| `ipv6_input` | `BracketedIpv6Accepted` (spec 6) | `host_str()` keeps the brackets, and parsing that as an IpAddr fails (557-560). |
| `display_text` | `NoPanic` (spec 7) | `{:#}` of a `Text` locator panics at the `expect` on 459. |
| `display_ipv6` | `NoPanic` | `{}` of an IPv6 locator panics in `Url::from` (653-654). |

## Proofs (TLAPS)

`LocatorProofs.tla`, `LocatorCanonical.tla`, `LocatorAuthority.tla` and `LocatorEndpoint.tla` prove six theorems for every value of the
constants, under the assumptions:

- `LocatorAssumption`:
  - ports are naturals below 65536;
  - keys, IPv4 addresses, IPv6 addresses and onion addresses are pairwise distinct;
  - `None` and `Empty` are none of them.
- `UrlAssumption`: a bracketed text is not an address, a key or `None`.
- `SessionAssumption`: the caller builds variants and receives texts that `from_str` may be given (`ParseableTexts`). `BadKey` and `BadHost` are no key, address, `None` or empty text (`BadKey` is a non-empty username).
- `NodeAddrZmqApiAssumption`.
- `NoneAssumption`: `None` is no locator.

The theorems:

- `TypeCorrect: Spec => []TypeOK`. No run checks `TypeOK`: the type system of Rust already gives most of it. It is proved because every other proof rests on it. `TypeOK` is inductive as it stands, because its sets are tight:
  - results are locators, `LocalAddrs` or `NodeAddrs`;
  - errors are the finite sets of error names.

  The proof rests on one lemma per operator. For example, `ToUrlStringType` proves that a serialized locator is a parseable text, and `TryFromUrlType` and `FromStrType` prove that a parse gives a locator or a `ParseError`. Each lemma is proved by cases over the variants (`LocatorCases`).
- `EqHashContractTheorem: Spec => []EqHashContract`. This follows from `TypeOK` and the lemma `ApiEqName`: ApiTypes that are `ApiEq`-equal have the same `api_name`.
- `WithPortTakesPortTheorem: Spec => []WithPortTakesPort`. This follows from `TypeOK` and the lemma `WithPortSetsPort`. That lemma says the variants `with_port` sets a port on (`PortKinds`) are exactly those whose `inet_addr()` is some address.
- `ParsedCanonicalTheorem: Spec => []ParsedCanonical`.
  - `ParsedCanonical` is not inductive, because it talks about `out` and `text` without saying that `out` came from `text`.
  - The inductive invariant is `IInv == TypeOK /\ CallResults`. `CallResults` says that `text` is `ToUrlString(origin)` when there is an origin, and that a parse result is `FromStr(text)`. TLC checked it, as an invariant of the main instance, before it was proved.
  - Under `IInv`, the property reduces to `Canonical(v)` for every locator `v`.
  - `Canonical(v)` is proved per variant, with one lemma each, by following `from_str` through `to_url_string`'s text.
- `ParsedKeepsAuthorityTheorem: Spec => []ParsedKeepsAuthority`. It uses the same `IInv`. The lemma `FromStrKeeps` says that `from_str` keeps the userinfo (outside lnpt) and the port of every parseable text. It rests on two further lemmas:
  - `ParseUrlKeeps`: the URL parse passes on the userinfo and the port, and refuses them without a host;
  - `TryFromUrlKeeps`: every branch of `try_from` keeps them when the host is present.
- `AdoptKeepsEndpointTheorem: Spec => AdoptKeepsEndpoint`. Its key lemma, `TextDeterminesLocator`, says that `to_url_string` is injective up to the api token. Two locators with the same text are the same variant, and they agree on every field except the role, whose api tokens are equal. The lemma has two parts:
  - `KindFromText` reads the variant back from the text: the scheme, then whether the text has an authority, a fragment and a userinfo.
  - Under one variant, each field appears in some part of the text.

  The lemma `AdoptStep` combines this with `CallResults` and `AllCanonical`. An adopted parse of the held locator's own text serializes to that same text, so it keeps the endpoint. The action property then follows from `Spec => []IInv` by PTL.

The theorems hold for every value of the constants, IPv6 addresses included. The main run has no IPv6 address only because the IPv6 texts fail to parse, as the violation runs show.

Only TLC checks the violated properties. They are false of the code, so they have no proof.

There is no liveness: no operation waits or loops, so no fairness is assumed.

## Limits of the model

- The url crate is modelled only by what it decides for the texts the model builds. Hosts that are DNS names, percent-encoding and other URL forms are out of scope.
- Paths and inproc names are opaque values. They serialize and parse back unchanged. A real path may not:
  - a non-ASCII character is percent-encoded;
  - a `?` starts the query;
  - a leading `//` makes the path an authority, so a Posix path `//<key>@<ip>` re-reads as a Native locator.

  `ParsedCanonical` and `AdoptKeepsEndpoint`, and their theorems, hold for paths without these forms.
- There is no abstract specification. A key-value store keyed by `Hash` was tried. Since `Hash` is the text `to_url_string` writes, it said no more than `ParsedCanonical`, so it was dropped.
- The error payloads and the Display and Debug text are not modelled.
- `node_addr.rs` and `zmqsocket` are not in the repository. Their parts follow the spec.
