------------------------------- MODULE Codec -------------------------------
(***************************************************************************)
(* gmail-calendar/src/util.c: b64url_encode, url_encode and rstrip, a turn *)
(* of their loops at a time, on a buffer of the caller's size.  OpenSSL's  *)
(* EVP_EncodeBlock is external.  A character is a pair of its kind and its *)
(* value.                                                                  *)
(***************************************************************************)
EXTENDS Integers, Sequences

CONSTANTS
    UrlBytes,   \* characters url_encode is given, as bytes
    RawBytes,   \* bytes b64url_encode is given
    MaxUrl,     \* bound: length of a string
    MaxRaw,     \* bound: number of raw bytes
    MaxCap      \* bound: size of the caller's buffer

VARIABLES
    fn,         \* the function called, "idle" before
    input,      \* its bytes
    cap,        \* out_cap
    out,        \* the caller's buffer
    p,          \* index of the next character read
    w,          \* w (n in rstrip)
    ret,        \* <<>> while it runs, then <<the result>>
    outside,    \* something was written beyond the buffer
    evp         \* "error" when EVP_EncodeBlock returned a negative number

vars == <<fn, input, cap, out, p, w, ret, outside, evp>>
argument == <<fn, input, cap, evp>>

Nul == <<"nul", 0>>
Junk == <<"junk", 0>>
Strings(S, n) == UNION {[1 .. k -> S] : k \in 0 .. n}

Init ==
    /\ fn = "idle" /\ input = <<>> /\ cap = 0 /\ out = <<>> /\ p = 0 /\ w = 0
    /\ ret = <<>> /\ outside = FALSE /\ evp = "ok"

-----------------------------------------------------------------------------
\* out[at] = c, and one after the other.
Store(at, chars) ==
    /\ out' = [k \in DOMAIN out |->
                  IF k \in at + 1 .. at + Len(chars) THEN chars[k - at] ELSE out[k]]
    /\ outside' = (outside \/ at + Len(chars) > Len(out))

Return(result) == ret' = <<result>>
Running == ret = <<>>

-----------------------------------------------------------------------------
(* url_encode                                                              *)

is_unreserved(c) ==
    \/ c \in 65 .. 90 \/ c \in 97 .. 122 \/ c \in 48 .. 57
    \/ c \in {45, 95, 46, 126}

CallUrlEncode ==
    /\ fn = "idle" /\ fn' = "url_encode"
    /\ input' \in Strings(UrlBytes, MaxUrl) /\ cap' \in 0 .. MaxCap
    /\ out' = [k \in 1 .. cap' |-> Junk] /\ p' = 1 /\ w' = 0
    /\ UNCHANGED <<ret, outside, evp>>

Encoded(c) ==
    IF is_unreserved(c) THEN <<<<"char", c>>>>
    ELSE <<<<"percent", 0>>, <<"hex", c \div 16>>, <<"hex", c % 16>>>>

\* One character: as it is, or as % and two hexadecimal digits.
UrlStep ==
    /\ fn = "url_encode" /\ Running /\ p <= Len(input)
    /\ LET chars == Encoded(input[p])
       IN  IF w + Len(chars) >= cap
           THEN Return(-1) /\ UNCHANGED <<out, outside, p, w>>
           ELSE Store(w, chars) /\ w' = w + Len(chars) /\ p' = p + 1 /\ UNCHANGED ret
    /\ UNCHANGED argument

UrlEnd ==
    /\ fn = "url_encode" /\ Running /\ p > Len(input)
    /\ IF w >= cap THEN Return(-1) /\ UNCHANGED <<out, outside>>
       ELSE Store(w, <<Nul>>) /\ Return(w)
    /\ UNCHANGED <<argument, p, w>>

-----------------------------------------------------------------------------
(* b64url_encode                                                           *)

EncodedLength(n) == 4 * ((n + 2) \div 3)

\* The k-th character EVP_EncodeBlock writes.
Base64(bytes, k) ==
    LET g == 3 * ((k - 1) \div 4)
        j == (k - 1) % 4
        byte(m) == IF m <= Len(bytes) THEN bytes[m] ELSE 0
        v == CASE j = 0 -> byte(g + 1) \div 4
               [] j = 1 -> (byte(g + 1) % 4) * 16 + byte(g + 2) \div 16
               [] j = 2 -> (byte(g + 2) % 16) * 4 + byte(g + 3) \div 64
               [] j = 3 -> byte(g + 3) % 64
    IN  IF j >= 2 /\ g + j > Len(bytes) THEN <<"=", 0>>
        ELSE IF v = 62 THEN <<"+", v>> ELSE IF v = 63 THEN <<"/", v>>
        ELSE <<"alnum", v>>

\* EVP_EncodeBlock fills the buffer, with a NUL behind.
EncodeBlock ==
    LET n == EncodedLength(Len(input'))
    IN  /\ out' = [k \in 1 .. cap' |-> IF k <= n THEN Base64(input', k)
                                      ELSE IF k = n + 1 THEN Nul ELSE Junk]
        /\ outside' = (n + 1 > cap')

\* return -1, with nothing of use in the buffer.
Refuse == out' = [k \in 1 .. cap' |-> Junk] /\ Return(-1) /\ UNCHANGED outside

\* Fault: the length without padding is taken for the size that is needed.
CallB64urlEncodeUnpadded ==
    /\ fn = "idle" /\ fn' = "b64url_encode"
    /\ input' \in Strings(RawBytes, MaxRaw) /\ cap' \in 0 .. MaxCap
    /\ IF (4 * Len(input') + 2) \div 3 + 1 > cap'
       THEN Refuse /\ UNCHANGED evp
       ELSE \/ EncodeBlock /\ UNCHANGED <<ret, evp>>
            \/ Refuse /\ evp' = "error"
    /\ p' = 1 /\ w' = 0

\* A buffer that cannot hold the padded encoding is refused, and an error of
\* EVP_EncodeBlock is passed on.
CallB64urlEncode ==
    /\ fn = "idle" /\ fn' = "b64url_encode"
    /\ input' \in Strings(RawBytes, MaxRaw) /\ cap' \in 0 .. MaxCap
    /\ IF EncodedLength(Len(input')) + 1 > cap'
       THEN Refuse /\ UNCHANGED evp
       ELSE \/ EncodeBlock /\ UNCHANGED <<ret, evp>>
            \/ Refuse /\ evp' = "error"
    /\ p' = 1 /\ w' = 0

\* One character, in place: padding is left out, + and / are translated.
B64urlStep ==
    /\ fn = "b64url_encode" /\ Running /\ p <= EncodedLength(Len(input))
    /\ IF out[p][1] = "=" THEN UNCHANGED <<out, outside, w>>
       ELSE /\ Store(w, <<CASE out[p][1] = "+" -> <<"-", 62>>
                            [] out[p][1] = "/" -> <<"_", 63>>
                            [] OTHER -> out[p]>>)
            /\ w' = w + 1
    /\ p' = p + 1 /\ UNCHANGED <<argument, ret>>

B64urlEnd ==
    /\ fn = "b64url_encode" /\ Running /\ p > EncodedLength(Len(input))
    /\ Store(w, <<Nul>>) /\ Return(w)
    /\ UNCHANGED <<argument, p, w>>

-----------------------------------------------------------------------------
(* rstrip                                                                  *)

White == {10, 13, 32, 9}

CallRstrip ==
    /\ fn = "idle" /\ fn' = "rstrip"
    /\ input' \in Strings(UrlBytes, MaxUrl) /\ cap' = Len(input') + 1
    /\ out' = [k \in 1 .. Len(input') |-> <<"char", input'[k]>>] \o <<Nul>>
    /\ w' = Len(input') /\ UNCHANGED <<p, ret, outside, evp>>

RstripStep ==
    /\ fn = "rstrip" /\ Running
    /\ IF w > 0 /\ out[w][2] \in White
       THEN Store(w - 1, <<Nul>>) /\ w' = w - 1 /\ UNCHANGED ret
       ELSE Return(w) /\ UNCHANGED <<out, outside, w>>
    /\ UNCHANGED <<argument, p>>

Next == \/ CallUrlEncode \/ UrlStep \/ UrlEnd
        \/ CallB64urlEncode \/ B64urlStep \/ B64urlEnd
        \/ CallRstrip \/ RstripStep

Spec == Init /\ [][Next]_vars

-----------------------------------------------------------------------------
(* Properties.                                                             *)

\* What a reader of the first n characters of buffer o takes them for, from
\* each place on.
UrlDecoding(o, n) ==
    LET from[k \in 1 .. n + 1] ==
            IF k > n THEN <<>>
            ELSE IF o[k][1] = "percent"
                 THEN <<16 * o[k + 1][2] + o[k + 2][2]>> \o from[k + 3]
                 ELSE <<o[k][2]>> \o from[k + 1]
    IN  from

\* The places url_encode needs for the first k bytes of s, without a NUL.
UrlPlaces(s) ==
    LET upto[k \in 0 .. Len(s)] ==
            IF k = 0 THEN 0 ELSE upto[k - 1] + Len(Encoded(s[k]))
    IN  upto

\* The byte of the base64url string at its place m.
B64urlDecoded(m) ==
    LET k == 4 * ((m - 1) \div 3)
        v(j) == out[k + j][2]
    IN  CASE m % 3 = 1 -> v(1) * 4 + v(2) \div 16
          [] m % 3 = 2 -> (v(2) % 16) * 16 + v(3) \div 4
          [] m % 3 = 0 -> (v(3) % 4) * 64 + v(4)

\* The places of a base64url string of n bytes, without padding and NUL.
UnpaddedLength(n) == (4 * n + 2) \div 3

\* A result is a string in the buffer that decodes to the input, for every
\* input and size of buffer.  url_encode refuses exactly the buffers that have
\* no room for the encoding and its NUL; b64url_encode refuses those, and none
\* that holds the padded form it works on unless OpenSSL fails; its in-place
\* translation overtakes nothing it has not read.  rstrip leaves no newline or
\* carriage return at the end, cuts off white space only and keeps the rest.
\* Nothing is written outside the buffer.
EncodersRight ==
    /\ ~outside
    /\ ret # <<>> /\ fn # "rstrip" =>
          /\ ret[1] >= 0 => out[ret[1] + 1] = Nul
          /\ fn = "url_encode" =>
                /\ ret[1] = -1 <=> UrlPlaces(input)[Len(input)] + 1 > cap
                /\ ret[1] >= 0 => UrlDecoding(out, ret[1])[1] = input
          /\ fn = "b64url_encode" =>
                /\ UnpaddedLength(Len(input)) + 1 > cap => ret[1] = -1
                /\ ret[1] = -1 => EncodedLength(Len(input)) + 1 > cap \/ evp = "error"
                /\ ret[1] >= 0 =>
                      /\ ret[1] = UnpaddedLength(Len(input))
                      /\ \A k \in 1 .. ret[1] : out[k][1] \in {"alnum", "-", "_"}
                      /\ \A m \in 1 .. Len(input) : B64urlDecoded(m) = input[m]
    /\ ret # <<>> /\ fn = "rstrip" =>
          /\ \A k \in 1 .. Len(input) : k > w <=> out[k] = Nul
          /\ \A k \in w + 1 .. Len(input) : input[k] \in White
          /\ w > 0 => input[w] \notin {10, 13} /\ out[w] = <<"char", input[w]>>
=============================================================================
