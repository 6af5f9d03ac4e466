# TLA+ models of stunparse

stunparse is a zero-copy STUN (RFC 5389/8489) message parser and attribute
codec in Rust. This directory holds TLA+ models of it, the TLC configurations
that check them, and `PROJECT.json`. `PROJECT.json` lists the components, the
runs, the mutants and the hazards, and maps every definition to the source
lines it models.

## The system

The library is synchronous and allocation-optional. Every call is a bounded
loop over caller memory, with no threads, I/O or persistence. What is hard to
test is therefore not concurrency. It is:

- numeric edges at u16 width;
- containers at their capacity;
- what a caller's reusable container holds after a call fails;
- the order in which checks run;
- sequences of calls on the same container.

Inbound data flows like this:

```
bytes --Header::decode--> Header --MessageParser::from_header_and_attrs-->
  Container::parse (RawAttribute::parse_inner) --> [RawAttribute]
  --iter_raw/convert--> Item {attr, value, attrs_up_to}
  --validation_header / set_len_from_item--> bytes to hash for MESSAGE-INTEGRITY
```

The parts, with the module that models each:

| Part | Source | Module |
|---|---|---|
| Header codec | `src/src/header/*.rs` | `Header` (operators), checked in `MessageParser` |
| Framing primitives | `parse/attribute.rs` (`padding`, `padded_len`), `attribute/mod.rs` (`total_len`, `ensure_space`, `MAX_VALUE_LEN`) | `Framing` |
| RawAttribute scanner + containers | `parse/attribute.rs` | `RawAttributeScan`, abstract `ScanContract` |
| Message parser | `parse/message.rs` | `MessageParser` (instantiates `RawAttributeScan`, extends `Header`) |
| Attribute contract and kinds | `attribute/mod.rs`, `attr_enum.rs`, `empty.rs`, `integer.rs`, `fixed.rs`, `data.rs`, `unknown.rs`, `change_request.rs`, `error_code.rs`, `password.rs`, `type.rs` | `AttributeCodec` (operators), `MessageEncoder` (behaviour) |
| Address codec | `attribute/addr.rs` | `AddressCodec` |
| Text validation | `attribute/string/dns.rs`, `quoted.rs`, `length.rs`, `validated.rs`, `text_attr.rs`, `error.rs` | `TextValidation` (operators), `TextValidator` (behaviour); text attributes in `AttributeCodec` |
| Encoder to parser | a caller of both halves (spec 2): encode, `Header::new`, `from_complete_message`, `iter` (`parse/message.rs`, `attribute/mod.rs`) | `MessageExchange` (instantiates `MessageEncoder` and `MessageParser`) |
| Error taxonomy | `error.rs` and the `new_error!` declarations | `ErrorTaxonomy` (the kind of each encode-path error), used by `MessageEncoder` |
| util, test data | `util.rs`, `test_data.rs` | not modelled (helpers, data) |

### Framing (`Framing.tla`)

Integers keep their Rust width.

- `Padding(len)` is `(-(len as i16) as u16) & 3`. `AsI16` reinterprets the u16
  as an i16.
- `PaddingPanics(len)` holds for len = 0x8000 when the build has overflow
  checks. The constant `OverflowChecks` is TRUE for debug and test builds and
  FALSE for release.
- `PaddedLen` and `PaddedLenPanics` model the same for `padded_len`.

### Scanner (`RawAttributeScan.tla`)

**Buffer abstraction.** A buffer is a sequence of 4-byte words plus a 0–3 byte
tail. Each word is the type-length header the scan reads if it lands there. A
value's bytes are never read, so only their count matters.

**State.** These variables are the code's own state:

| Variable | Meaning |
|---|---|
| `cursor` | `*src` in `parse_inner` |
| `slots` | the container's storage; its length is the capacity |
| `len` | the length field of `Vec` / `heapless::Vec` |
| `written` | the slots taken from the iterator in this pass |
| `view` | what the caller holds after the call |
| `outcome` | the call's result |

**Actions.**

- `Parse(b)` is `Container::parse` up to the first loop test. The `Vec`
  truncates here.
- Each remaining action is one iteration or exit of the loop in `parse_inner`:
  - `ScanAttribute`: the fit check passes and the record is written.
  - `AttributeTooBig`: the value does not fit. The zero-length `unwrap`
    becomes outcome "panic".
  - `PaddingOverflow`: the debug panic in `padding`.
  - `Full`: no slot is left, for an array or a `heapless::Vec`.
  - `VecReserve`: the `Vec` sets its length, calls `reserve(1)` and resumes.
  - `Done`: fewer than 4 bytes remain.

**Containers.** The variable `kind` is the caller's container type. It is
chosen in `Init` from the constant set `Kinds` and never changes, so one run
covers several containers. There are three types:

- `"array"` returns the written slice.
- `"heapless"` calls `set_len` on success only.
- `"vec"` grows to `max(2*cap, cap+1, 4)`, as RawVec does for 8-byte
  elements.

A slot is taken from the iterator (`attrs.next()`, line 35) before the fit
check. On `AttributeTooBig` the array returns nothing and the
`heapless::Vec` keeps its old length, but the `Vec`'s
`set_len(capacity - iter.len())` counts that slot (`LenOnErr`): the view it
holds ends with a slot that was never written, `Uninit` on a fresh
capacity or a record of an earlier buffer on a reused one.

**Refinement.** `ScanContract.tla` is the abstract promise of spec 4.3. A
call takes a buffer and returns a result:

- on success, every record of a reference walk written from the spec, with
  padding `(4 - len % 4) % 4`;
- `TooManyAttributes` when a fixed container needs more than N slots;
- otherwise an error, with nothing for an array and a prefix for a vector.

`ContractRefinement` checks that `RawAttributeScan` implements it under the
mapping `pc <- IF pc = "idle" THEN "idle" ELSE "busy"`, which hides the
loop steps. The fixed array does; the `heapless::Vec` (finding 1) and the
`Vec` (finding 8) do not, on error paths. The parts of the contract that all
three containers keep are checked on their own: `OutcomeAsContract` (every
call reports the contract's outcome), `RecordsInBounds` (a successful call
hands back exactly the records of its buffer, all written by it) and
`ParseReturns` (every call returns or panics).

### Header (`Header.tla`)

`Header` holds the codec as operators, with Bitwise:

- `ClassFromMsgType`, `ClassIntoMsgType`, `MethodFromMsgType` and
  `MethodIntoMsgType` are the class and method bit scatter.
- `Decode` applies the MSB check, then the length parity check; it copies
  the cookie and transaction id.
- `Encode`, `NewHeader` and `IsRfc3489` model the functions of the same
  names.

Decode and encode are pure functions, so `MessageParser` checks them as
constant formulas over every one of the 65536 message types (`AllHeaderWires`),
which TLC evaluates once, and on the header of each of its own calls. The
reference is RFC 5389 figure 3 read bit by bit (`RfcMethod`, `RfcClass`), not
the shift formulas.

### Message parser (`MessageParser.tla`)

`MessageParser` shares the scanner's variables through `S == INSTANCE
RawAttributeScan`, and adds three variables:

| Variable | Meaning |
|---|---|
| `wire` | the 20 header bytes of a `from_complete_message` call |
| `hdr` | the parser's header |
| `result` | the result of the last call |

Its actions are these:

- `HeaderTooBig` is the src-shorter-than-20 branch.
- `FromCompleteMessage(w, b)` runs `Header::decode`, then the checks of
  `from_header_and_attrs`.
- `FromHeaderAndAttrs(h, b)` takes a caller's `Header::new`.
- `CheckHeaderAndAttrs` tests the magic cookie, then the length, then starts
  `Container::parse`.
- `ScanStep` is a scanner step. When the scanner returns, the call returns
  `Ok(MessageParser)` or the error.

`iter_raw`'s `convert` (`Item`), `validation_header` and `set_len_from_item`
take `&self` and change nothing, so they are operators of the state.

### Attribute codecs (`AddressCodec.tla`, `AttributeCodec.tla`)

Outbound, a caller encodes attributes one after another into one buffer:
each `EncodeAttribute::encode(dst, tid)` returns the rest of `dst`, or an
error. The codecs are operators over byte sequences (bytes are 0..255):

- an encode `EncodeX(..., dstLen)` returns `[status, w]`, where `w` is the
  bytes the call writes from the start of `dst` (nothing or a prefix on
  failure, exactly as the code writes them);
- a decode `DecodeX(t, src)` returns `Decoded(value)` or `Rejected(error)`;
- an attribute value is a record with `kind`, `type` (the codepoint) and
  the fields of the Rust struct.

`Framing` adds the big-endian conversions and `encode_type_length` /
`decode_type_length`. `AddressCodec` holds `addr.rs`: the address header,
`OptXor` for a transaction id (`XorPort`, `XorIp`), the family attributes
and `into_family`. `AttributeCodec` holds every other kind, each translated
from its encoder and decoder, and the dispatch of `define_attribute_enum!`
(`EncodeAttr` by kind, `EncodedValueLen`, `DecodeAttr` by codepoint with
`UnknownAttribute` for all other codepoints). `PasswordAlgorithms::encode`'s
loop and the decode loop over `next_alg` are `RECURSIVE` operators; one
`next_alg` step is the operator `NextAlg`, including the debug-build panic
of `padding` on a parameter length of 0x8000, which comes before the length
check. No run decodes received PASSWORD-ALGORITHMS values in a debug build.
`Framing.TotalLen` keeps the release arithmetic: its debug panic needs a
32 KiB value (both are hazards with notes). Integers keep
u16 width where the code casts (`% U16`).

### Encoder behaviour (`MessageEncoder.tla`)

| Variable | Meaning |
|---|---|
| `buf` | the caller's whole buffer, initially `Junk` bytes |
| `pos` | where the `rest` the caller passes next starts |
| `sent` | the attributes encoded so far (a history variable) |
| `last` | the status of the last call |

`EncodeCall(a)` is one `encode` of a value `a` into `buf[pos+1..]`: the bytes
the call writes land in `buf` whether it succeeds or not, and only on success
does the caller move on. The reference it is checked against, `TLVs`, reads
the written bytes as spec 6 describes the wire format, without the code's
operators.

`ErrorTaxonomy` maps each error an encode can return to the `StunErrorKind`
its `new_error!` declaration names, which is all a caller sees of it.
`RetryAdvice` (spec 5) uses it: from every state, an encode that fails
reports `BufferTooSmall` exactly when the same value encodes into a buffer of
its `encoded_len`, so "retry with more buffer" is the right reaction to that
kind and only to it.

### Text validation (`TextValidation.tla`, `TextValidator.tla`)

A `&str` is a sequence of Unicode scalar values, and a byte slice is a
sequence of 0..255. `Utf8` and `FromUtf8` are `str::as_bytes` and
`str::from_utf8`, including the rules against overlong forms and
surrogates. A policy is the record `[dns, quoted, opaque]` of the three
const-generic flags of `Validated<T, D, Q, O>`.

`TextValidation` translates each part of the engine:

- **DNS names** (`dns.rs`): one loop iteration is `DnsTransition` and the
  `curr > MAX_LABEL_LENGTH` check is `DnsStep`. `validate_domain_name` folds
  `DnsStep` over the bytes.
- **Quoted text** (`quoted.rs`): `QuotedStep` is the char machine and
  `QuotedAsciiStep` the byte machine. `"fail"` stands for an early
  `return false`.
- **Lengths** (`length.rs`): `validate_str_len` and `validate_str_bytes`,
  each with its byte-length fast path and char count.
- **Constructors** (`validated.rs`): `TryFromBytes` (the decode path),
  `TryFromStr` (the `try_from!` impls that encode re-runs) and
  `const_try_from`. Each runs its policy's checks in the code's order and
  reports the first error.

The limits are constants: the code has 63, 253 and 127. `AttributeCodec`
instantiates the module with these values and uses it for the error reason
and for the five text attributes (REALM, USERNAME, NONCE, SOFTWARE and
ALTERNATE-DOMAIN, each with its `new_text_attr!` policy). A text encode
validates the `&str` and then calls `encode_variable_len` on its bytes. A
text decode is `Validated::try_from` of the value bytes.

`opaque.rs` is declared in `mod.rs` but is not in the repository.
`OpaqueChar` is modelled from spec 4.7: control characters (C0, DEL and C1)
are rejected, and the ASCII variant also rejects non-ASCII input. The
properties do not depend on anything more of the PRECIS profile.

The reference definitions are written from the grammars, not from the
machines:

- `RefHostName` splits the name at dots and checks each RFC 1123 label.
- `RefQuoted` is the RFC 3261 qdtext / quoted-pair / LWS grammar, as a
  `RECURSIVE` operator.
- `RefValid` combines them with UTF-8 validity and the char limit.

`TextValidator` chooses a policy and an input in `Init`. Its three actions
are the three constructors, applied to the input or to the string with
those bytes. Each action may repeat, in any order.

### Encoder to parser (`MessageExchange.tla`)

The two halves composed the way a caller uses them (spec 2). The module
instantiates `MessageEncoder` as it is and `MessageParser` with its buffer
renamed to `src`, and shares nothing else:

- `EncodeCall(a)`: the encoder's action, while no parse has started;
- `ParseMessage`: `from_complete_message` on a `Header::new` header
  (`MessageHeader`, with the length the caller wrote and the transaction id
  it encoded with) and the written bytes, read by the scanner at every word
  (`ScanBuffer`);
- `ScanStep`: one iteration of `parse_inner`.

One parse ends the exchange. `IterDecode` is `iter<D>`: the value bytes
sliced out of the written bytes and decoded with the parser's transaction
id. `IterDecodesSent` says that whatever was encoded is accepted, yields one
record per attribute sent in order, and each record decodes to the value
sent. A mutant that decodes with a zeroed transaction id breaks it on the
XOR addresses.

## Runs

| Run | Expect | What it shows |
|---|---|---|
| `scan_containers` | pass | All three containers (array and `heapless::Vec` of 2 slots, `Vec` from capacity 1), debug build, length 0x8000 among the inputs. `RecordsInBounds`: a successful call hands back records it wrote that tile the buffer. `OutcomeAsContract`: every call reports Ok, `AttributeTooBig` or `TooManyAttributes` as the spec's walk says. `ParseReturns`: every call returns or panics; the `Vec`'s reserve-and-resume loop ends. This run is where `PaddingOverflow` and `VecReserve` fire. |
| `scan_vec_too_big` | violation | `ContractRefinement`. A `Vec` of capacity 1 parsing the header `[t1, 5]` fails with `AttributeTooBig` and holds one slot that was never written (finding 8). |
| `scan_heapless_stale` | violation | `ViewIsPrefixOfScan`. After a failed parse the `heapless::Vec` holds records that are not of its last buffer (finding 1). |
| `scan_debug_panic` | violation | `NoPanic`. A header with length 0x8000 panics the scanner in a debug build (finding 2). |
| `parser_debug` | pass | Both entry points over a fixed array and a `heapless::Vec`, debug build, with headers declaring 0x8000. `UncheckedSlicesInBounds`, `ValidationLengthCoversItem`, `ValidationHeaderMatchesWire` and `ParsedMessageConsumesAll` hold. `HeaderRoundTrip` (spec 8) and `DecodeFollowsRfcLayout` hold for all 65536 message types. |
| `parser_new_header_tail` | violation | `ParsedMessageConsumesAll`. A `Header::new` length of 5 leaves an unscanned byte (finding 3). |
| `message_exchange` | pass | `MessageExchange` with 19 attribute values of every kind, three of them text, encoded back to back into 24 bytes. `RoundTrip`: the bytes read as one zero-padded TLV per value sent, each decoding to that value. `EncodedLenIsSpaceUsed`: `encoded_len` is the space each encode takes. `Rfc5769XorVectors`: XOR-MAPPED-ADDRESS gives the RFC 5769 sample bytes. `NoPartialWrite`: a failed encode leaves the buffer unchanged. `RetryAdvice`: a failure is `BufferTooSmall` exactly when more buffer would make it succeed. `IterDecodesSent`: parsing what was written, into an array of 6 slots or a `Vec` from capacity 1, gives back each value sent. |
| `codec_data_wrap` | violation | `RoundTrip`. A DATA value of 65537 bytes is encoded as a 1-byte attribute (finding 7). |
| `codec_empty_attr` | violation | `RoundTrip`. An encoded DONT-FRAGMENT does not decode (finding 4). |
| `codec_error_class6` | violation | `RoundTrip`. ERROR-CODE 600 encodes but does not decode (finding 5). |
| `codec_password_algorithms` | violation | `NoPartialWrite`. PASSWORD-ALGORITHMS with one algorithm writes its header and fails (finding 6). |
| `text_validation` | pass | Every policy and every input of up to 4 bytes. `DecodeMatchesGrammar`: decoding accepts exactly what the RFC 1123 host-name, RFC 3261 quoted-string and length grammars admit. `EncodeDecodeAgree`: the encode-time check (`validate_str_len`) and the decode-time check (`validate_str_bytes`) agree on a string and its bytes. `ConstAgreesWithRuntime`: `const_try_from` never admits what the runtime check rejects, and on ASCII strings the two agree. `TypeOK` holds each entry point to the errors its Rust type can return. |

`ParseReturns` is the liveness half of the contract (`Contract!Spec` has
weak fairness on `Return`); it holds for every container, while the
refinement as a whole fails for the `Vec` on a safety step.

Each property of a passing run has a mutant in `PROJECT.json`. The mutant is
a plausible bug of the mapped code, for example:

- a fit check without the padding;
- a `Vec` that does not truncate;
- a `reserve` that does not grow;
- a skipped cookie check.

TLC finds the property violated under the mutant.

## Findings

1. **`heapless::Vec::parse` leaves stale records (attribute.rs:124).** The
   `?` returns before `set_len`, so after an error the container keeps its old
   length over slots the failed scan has overwritten. The trace has two
   steps:
   1. A parse of one attribute succeeds, and len = 1.
   2. A parse of a buffer whose first attribute is too big fails.

   The Vec still shows a record, and its offset refers to the old buffer.
   Spec 3 says the container is reset at the start of every parse. The alloc
   `Vec` does truncate.
2. **Debug-build panic in `padding` (attribute.rs:71).** `-(len as i16)` for
   len = 0x8000 overflows. A 4-byte attribute header in untrusted input
   crashes the parser when built with overflow checks, contrary to spec 7.
3. **`from_header_and_attrs` accepts a non-aligned length (message.rs:50).**
   It only compares `header.length` with `src.len()`. A header built with
   `Header::new` and a length that is not a multiple of 4 yields a parser whose
   1–3 trailing bytes belong to no attribute. The length from
   `validation_header` then covers bytes no attribute accounts for. The
   closing comment of `parse_inner` assumes that cannot happen.

4. **`decode_empty` is inverted (empty.rs:67).** It returns `Ok` for a
   non-empty value and `LenMismatch` for an empty one, so DONT-FRAGMENT and
   USE-CANDIDATE never decode what `encode_empty` writes.
5. **ERROR-CODE class 6 (error_code.rs:245).** `!(3..6).contains(&class)`
   rejects class 6, while `ErrorCode::new` accepts 300..=699 and the error
   message says the class is "between 3 and 6".
6. **PASSWORD-ALGORITHMS cannot be encoded (password.rs:104).**
   `value_len` counts algorithm, length and parameters per entry, but the
   loop calls `PasswordAlgorithm::encode`, which writes a whole nested TLV
   with 4 more bytes. Every non-empty list runs out of room after the outer
   TL is already written and fails with a too-small buffer. The decoder
   (`next_alg`) reads entries without the nested TL, so even with room the
   output would not decode; the `PassAlgoLenMismatch` branch is dead.

7. **`shrink_to_u16` wraps (attribute/mod.rs:139).** It slices the value to
   `src.len() as u16` bytes. `Data::new` takes any slice, so a 65537-byte
   DATA value encodes with success as a 1-byte attribute holding its first
   byte. Spec 4.5 says the encode must fail with `ValueTooLong`;
   `UnknownAttribute::new` does refuse such values. The run turns off the
   overflow checks, as a release build does; the model keeps the u16 width.
8. **The `Vec` counts an unwritten slot after `AttributeTooBig`
   (attribute.rs:110).** `parse_inner` takes a slot (line 35) before the fit
   check and returns without writing it. `Vec::parse` calls
   `set_len(capacity - iter.len())` before matching on the result, so the
   length covers that slot. On a fresh capacity it is uninitialised memory,
   and reading it through the `Vec` is undefined behaviour; on a reused one
   it is a record of an earlier buffer. Spec 4.3 says a failed parse leaves
   at most the records scanned so far. The trace: Parse of one word
   `[t1, 5]` into a `Vec` of capacity 1, then `AttributeTooBig` with
   `view = <<Uninit>>`.

### Spec wording that the code does not follow

Spec 4.7 says a quoted pair accepts "any non-ASCII byte (always accepted)".
`is_quoted_text` rejects a backslash followed by a non-ASCII character
(quoted.rs:23-29), and the code's own test lists `"\\\u{8a}"` as invalid.
RFC 3261's quoted-pair is `"\" (%x00-09 / %x0B-0C / %x0E-7F)`, so the code
follows the RFC. `DecodeMatchesGrammar` checks the code against the RFC
grammar, and it holds. The difference is in the spec text only, and no run
is spent on it.

## Bounds and why they suffice

**Scanner** (`MC_RawAttributeScan`):

- two attribute types;
- value lengths {0, 5}: 0 gives an empty value, and 5 needs 3 bytes of
  padding;
- up to 3 words plus a 0- or 1-byte tail;
- N = 2 slots, so a third header overflows a fixed container;
- Vec starting capacity 1, so reserve fires and grows 1 → 4.

These cover the cases that matter:

- a value that fits only with its padding, or only without it;
- a value that overruns by 1–3 bytes;
- a tail of fewer than 4 bytes;
- more headers than slots;
- two calls in a row on the same container, needed for the stale-state
  finding.

The debug runs add length 32768.

**Header** (in `MC_MessageParser`): every one of the 65536 message types,
with the parser's length fields (aligned and not) and both cookies.

**Parser** (`MC_MessageParser`):

- buffers of up to 2 words and N = 1, so `TooManyAttributes` still happens;
- value lengths {0, 1}: a 1-byte value with its 3 bytes of padding fits in
  2 words, so padding is part of what the parser hands out;
- the message types 0x0111 (both class bits) and 0xC001 (MSB set);
- length fields {0, 5, 8}: matching, mismatching and non-aligned;
- both cookies;
- `Header::new` headers of length 4 and 8 in the passing run, and 5 in the
  violation run;
- in the passing run, the array and the `heapless::Vec`, with overflow checks
  on and length 0x8000 among the headers; the two type model values are
  symmetric.

Larger buffers multiply the inputs each state tries, without new control
paths. The scanner runs cover longer buffers.

**Text** (`MC_TextValidator`): labels of at most 2 bytes, names of at most
4, and strings of at most 3 characters (so `MAX_BYTES` = 12). The inputs are
all strings of up to 4 bytes over 10 bytes:

- `a`, `1`, `-` and `.`, which drive every DNS transition;
- `\`, CR, LF and space, which drive every quoted-text transition and the
  opaque check;
- 0xC3 and 0xA9, the two bytes of U+00E9.

The 5-byte strings over `a`, 0xC3 and 0xA9 are added. Every policy is tried
with every input. These bounds meet the cases that matter:

- every label and name limit, both met and exceeded;
- a numeric final label, and a numeric label before a named one;
- the fast path, with 3 bytes or fewer;
- the char count, with 4 or 5 bytes of 2 to 4 chars;
- invalid UTF-8, from a lone or truncated 0xC3 or a stray 0xA9;
- a quoted pair followed by CR, LF or a non-ASCII character.

The `MAX_BYTES` branch, for over 12 bytes, is not reached; see the
`as_str` hazard. The code's limits are 63, 253 and 127. The machines'
transitions do not depend on those values, only on whether a count is
above its limit.

**Encoder** (`MC_MessageEncoder`): one value of each kind (two for DATA,
empty and 3 bytes, so padding 0 and 1 both occur), the RFC 5769 transaction
id, the IPv4 and IPv6 XOR-MAPPED-ADDRESS of RFC 5769, and a 24-byte buffer.
Most values take 8 or 12 bytes, so two or three fit in a row and every kind
also meets a rest of 0, 4, 8 or 12 bytes that is too small, in each of the
`ensure_space` branches. The IPv6 address and MESSAGE-INTEGRITY take the
whole buffer. The text values are a REALM of one 2-byte character, an
ALTERNATE-DOMAIN `a.b`, and a NONCE `"` that the quoted-text check refuses,
so a text encode both succeeds and fails. Values are placeholders: the code treats bytes of a value
uniformly, except the class and number of an error code, the family byte and
the XOR'd octets, which take real values.

**Exchange** (`MC_MessageExchange`): the encoder's values and 24-byte
buffer, so the parser sees 0 to 6 attributes. The array has 6 slots, which
is as many as fit, and the `Vec` starts at capacity 1 so that it reserves
while it parses. The header is a Binding request.

## Fairness

`parse_inner` is a plain loop on the caller's thread with no blocking, so
once a call has started its next step is always taken: `WF_vars(Scan)` in the
scanner and `WF_vars(ScanStep)` in the parser. Nothing is fair about callers:
a caller may never call again. Deadlock checking is on except in two kinds of
run:

- **`scan_containers`, `scan_debug_panic` and `parser_debug`**, debug
  builds where a panic stops the program;
- **`message_exchange`**, where one parse ends the exchange.

`MessageExchange` keeps `WF_vars(ScanStep)`; the caller's encode calls and
its one parse have no fairness.

In `text_validation` every call can be repeated, so no state is terminal and
deadlock checking stays on.

The encoder runs keep deadlock checking: a caller can always call again,
the failing call included.

## Not modelled, and the plan

Done so far:

1. Framing
2. Scanner and containers, with the refinement
3. Header codec
4. Message parser
5. Attribute encoders and decoders of every kind, and the address codec
6. Back-to-back encoding into one buffer
7. Text validation: the DNS, quoted-text and length checks and the three
   constructors, against reference grammars, and the text attributes in the
   codec
8. The error kind of every encode-path error, and the retry advice of spec 5
9. Encoder to parser: what the encoders write is parsed and decoded back

Next, in this order:

1. **`value_len`'s u16 sum** for lists (UNKNOWN-ATTRIBUTES, PASSWORD-
   ALGORITHMS) beyond 64 KiB. The single-value wrap is finding 7; the sums
   need values of that size in a list, which is out of TLC's reach.
2. **Text error payloads**: `StringTooLong` stores its char count as `u8`
   (error.rs:41). Only its `Display` reads the count, so this would need the
   error values in the model.

Never modelled:

- `StunErrorKind::ValidationFailed` and `MagicCookie` on the encode path:
  no encode-path error declares them (policy violations are
  `InvalidParameter`), so `ErrorTaxonomy` has no error of those kinds;
- error `Display` text and `util.rs` helpers, which are formatting and slicing
  with no state of their own: `split_array_ref` and the other slice helpers
  appear in the model as `SubSeq`, and no property is about their output
  beyond that;
- `test_data.rs`: the RFC 5769 vectors are data; the XOR-address samples
  are checked by `Rfc5769XorVectors`, and the message-integrity vectors need
  HMAC and CRC, which are out of TLC's reach;
- the decode-side errors' kinds: a decode error is a result named by its
  cause, and the only property about kinds (`RetryAdvice`) is about encoding;
- buffers of 64 KiB or more, which are out of TLC's reach. The offset and
  `padded_len` wrap hazards need them, and they are listed with notes.
