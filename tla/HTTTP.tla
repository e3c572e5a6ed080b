------------------------------- MODULE HTTTP -------------------------------
(***************************************************************************)
(* The text tetrisu and tetrisd exchange: libhypertext lays a message out  *)
(* and takes it apart at its delimiters, libhtttp builds and reads the     *)
(* four requests, libhtttp/payload.c writes their bodies.                  *)
(*                                                                         *)
(* A text is a sequence of symbols: the delimiters " ", ":" and CRLF, and  *)
(* words without delimiters, numbers in decimal among them.  A request is  *)
(* far shorter than MAX_BUF, so nothing is cut off.                        *)
(***************************************************************************)
EXTENDS Integers, Sequences, FiniteSets, FiniteSetsExt, SequencesExt

CONSTANT MaxNumber      \* bound: the largest number that is written out

SP == " "
COLON == ":"
CRLF == "CRLF"

Decimal(n) == ToString(n)
Numerals == {Decimal(n) : n \in 0..MaxNumber}
ReadAs == [w \in Numerals |-> CHOOSE n \in 0..MaxNumber : Decimal(n) = w]
\* 0 if the word is no number
Number(w) == IF w \in Numerals THEN ReadAs[w] ELSE 0

-----------------------------------------------------------------------------
(* libhypertext.c *)

\* Where delim first begins in s, 0 if nowhere
Find(s, delim) ==
  LET found == {i \in 1..(Len(s) - Len(delim) + 1) : SubSeq(s, i, i + Len(delim) - 1) = delim}
  IN  IF found = {} THEN 0 ELSE Min(found)

ShortToken(s, delim) ==
  LET i == Find(s, delim)
  IN  [ok |-> i > 0, token |-> SubSeq(s, 1, i - 1), rest |-> SubSeq(s, i + 1, Len(s))]

\* What is before the next delim, and what is after it; strstr finds a delimiter
\* in the text that is left, wherever that is
next_token(s, delim) ==
  LET i == Find(s, delim)
  IN  [ok |-> i > 0, token |-> SubSeq(s, 1, i - 1), rest |-> SubSeq(s, i + Len(delim), Len(s))]

\* The lines of the header section, none if it is empty or has no end
count_headers(s) ==
  LET end == Find(s, <<CRLF, CRLF>>)
  IN  IF end <= 1 THEN 0 ELSE Cardinality({i \in 1..end : s[i] = CRLF})

\* The field up to the next ": ", and the value up to the end of that line
NextHeader(cur) ==
  LET field == next_token(cur.rest, <<COLON, SP>>)
      value == next_token(field.rest, <<CRLF>>)
  IN  [ok |-> cur.ok /\ field.ok /\ value.ok, rest |-> value.rest,
       headers |-> Append(cur.headers, [field |-> field.token, value |-> value.token])]

\* Not ok (-1) if any delimiter is missing
parse_hypertext(ht) ==
  LET first   == next_token(ht, <<SP>>)
      second  == next_token(first.rest, <<SP>>)
      third   == next_token(second.rest, <<CRLF>>)
      section == FoldLeft(LAMBDA cur, k : NextHeader(cur),
                          [ok |-> first.ok /\ second.ok /\ third.ok, rest |-> third.rest, headers |-> <<>>],
                          [k \in 1..count_headers(third.rest) |-> k])
      blank   == next_token(section.rest, <<CRLF>>)
  IN  [ok |-> section.ok /\ blank.ok,
       token1 |-> first.token, token2 |-> second.token, token3 |-> third.token,
       headers |-> section.headers, body |-> blank.rest]

\* A header with a delimiter in it is left out
msg_add_header(msg, field, value) ==
  IF {CRLF, COLON} \cap Range(field) # {} \/ CRLF \in Range(value) THEN msg
  ELSE [msg EXCEPT !.headers = Append(@, [field |-> field, value |-> value])]

HeaderText(headers) ==
  FoldLeft(LAMBDA text, h : text \o h.field \o <<COLON, SP>> \o h.value \o <<CRLF>>, <<>>, headers)

convert_to_hypertext(msg) ==
  msg.token1 \o <<SP>> \o msg.token2 \o <<SP>> \o msg.token3 \o <<CRLF>>
    \o HeaderText(msg.headers) \o <<CRLF>> \o msg.body

-----------------------------------------------------------------------------
(* libhtttp/payload.c: the bodies *)

payload_encode_input(action) == <<"{action-id", COLON, SP, Decimal(action), "}">>
payload_decode_input(body) == Number(body[4])

payload_encode_attack(a) ==
  <<"{source-player", COLON, SP, Decimal(a.from), ",", SP, "target-player", COLON, SP,
    Decimal(a.to), ",", SP, "lines", COLON, SP, Decimal(a.lines), "}">>
payload_decode_attack(body) ==
  [from |-> Number(body[4]), to |-> Number(body[10]), lines |-> Number(body[16])]

payload_encode_roster(ids) ==
  <<"{count", COLON, SP, Decimal(Len(ids)), ",", SP, "ids", COLON, SP, "[">>
    \o FlattenSeq([i \in DOMAIN ids |-> <<Decimal(ids[i]), SP>>]) \o <<"]}">>
\* count numbers from behind "ids: [", one blank apart
payload_decode_roster(body) ==
  LET ids == next_token(body, <<"ids", COLON, SP, "[">>).rest
  IN  [i \in 1..Number(body[4]) |-> Number(ids[2 * i - 1])]

StateFields == <<"player_id", "board", "pending", "target", "mode", "game_over", "winner">>
Commas(words) == FlattenSeq([i \in DOMAIN words |-> IF i = 1 THEN <<words[i]>> ELSE <<",", words[i]>>])

payload_encode_state(s) == Commas([i \in DOMAIN StateFields |-> Decimal(s[StateFields[i]])])
payload_decode_state(body) ==
  [f \in Range(StateFields) |->
     Number(body[2 * (CHOOSE i \in DOMAIN StateFields : StateFields[i] = f) - 1])]

-----------------------------------------------------------------------------
(* libhtttp.c: the requests *)

Methods == {"MOVE", "DROP", "ROTATE", "STATE", "ATTACK", "ACTION", "ROSTER"}

\* A date has blanks and colons in it
get_date_str == <<"Mon,", SP, "16", SP, "12", COLON, "30", SP, "GMT">>

\* req_create_action, req_create_state, req_create_attack, req_create_roster
Request(method, id, body) ==
  LET line  == [token1 |-> <<method>>, token2 |-> <<"/room/0/player/", Decimal(id)>>,
                token3 |-> <<"HTTTP/1.0">>, headers |-> <<>>, body |-> body]
      named == msg_add_header(line, <<"Player-Id">>, <<Decimal(id)>>)
      typed == msg_add_header(named, <<"Content-Type">>, <<"application/payload">>)
      dated == msg_add_header(typed, <<"Date">>, get_date_str)
  IN  msg_add_header(dated, <<"Content-Length">>, <<Decimal(Len(body))>>)

string_to_method(token) == IF Len(token) = 1 /\ token[1] \in Methods THEN token[1] ELSE "UNKNOWN"

\* The first Player-Id header, 0 if there is none
req_extract_info(msg) ==
  LET ids == {k \in DOMAIN msg.headers : msg.headers[k].field = <<"Player-Id">>}
  IN  [method |-> string_to_method(msg.token1),
       id |-> IF ids = {} THEN 0 ELSE Number(msg.headers[Min(ids)].value[1]),
       body |-> msg.body]

\* What the other side makes of a text: one that does not parse is dropped
Dropped == [method |-> "UNKNOWN", id |-> 0, body |-> <<>>]
OnMessage(ht) == LET msg == parse_hypertext(ht) IN IF msg.ok THEN req_extract_info(msg) ELSE Dropped

Received(method, id, body) == OnMessage(convert_to_hypertext(Request(method, id, body)))

=============================================================================
