-------------------------- MODULE CarbonlinkProofs --------------------------
(***************************************************************************)
(* Proofs about carbonlink: a request is read as it was meant, whatever    *)
(* the style of its pickle, and a reply belongs to its request, although a *)
(* query may time out here and be answered by the cache later.             *)
(***************************************************************************)
EXTENDS Carbonlink, FiniteSetTheorems, SequenceTheorems, TLAPS

(***************************************************************************)
(* The parser.                                                             *)
(***************************************************************************)
\* A text begins with its first opcode.
LEMMA FirstOp ==
    ASSUME NEW x \in RequestOp, NEW s \in Seq(RequestOp)
    PROVE  LET d == <<x>> \o s IN
           /\ d \in Seq(RequestOp) /\ d # Nil /\ d # Empty /\ Head(d) = x /\ Tail(d) = s
<1>1. <<x>> \in Seq(RequestOp) /\ Len(<<x>>) = 1 /\ <<x>>[1] = x
  OBVIOUS
<1>2. PICK d : d = <<x>> \o s
  OBVIOUS
<1>3. /\ d \in Seq(RequestOp) /\ Len(d) = 1 + Len(s) /\ Len(s) \in Nat
      /\ d[1] = x /\ \A i \in 1..Len(s) : d[i + 1] = s[i]
  BY <1>1, <1>2
<1>4. d # Empty /\ Head(d) = x
  BY <1>3 DEF Empty
<1>5. Tail(d) = s
  <2>1. /\ Tail(d) \in Seq(RequestOp) /\ Len(Tail(d)) = Len(s)
        /\ \A i \in 1..Len(Tail(d)) : Tail(d)[i] = d[i + 1]
    BY <1>3, <1>4 DEF Empty
  <2>2. \A i \in 1..Len(s) : Tail(d)[i] = s[i]
    BY <1>3, <2>1
  <2> QED BY <2>1, <2>2
<1>6. d # Nil
  BY <1>3, NilAssumption
<1> QED BY <1>2, <1>3, <1>4, <1>5, <1>6

\* A client's memos: none, or one after every object.
Memo(style) == IF style.memo THEN <<Op("q", Nil)>> ELSE Empty

\* The opcodes that the parser compares with.
LEMMA Opcodes ==
    /\ Op("q", Nil) \in RequestOp /\ Proto \in RequestOp /\ Mark \in RequestOp
    /\ Op("u", Nil) \in RequestOp /\ Op(".", Nil) \in RequestOp
    /\ \A k \in {"metric", "type"} : Key(k) \in RequestOp /\ Key(k).op = "U"
    /\ \A k \in {"U", "T", "X"}, v \in Text :
           Op(k, v) \in RequestOp /\ Op(k, v).op = k /\ Op(k, v).arg = v
    /\ Op("q", Nil).op = "q" /\ Mark.op = "(" /\ Op("u", Nil).op = "u" /\ Proto.op = "proto"
    /\ Key("metric") # Key("type") /\ Op("X", "metric") # Key("metric")
    /\ Op("X", "metric") # Key("type")
<1>1. \A k, v : Op(k, v) = [op |-> k, arg |-> v]
  BY DEF Op
<1>2. Nil \in {Nil} \cup Text /\ Text \subseteq {Nil} \cup Text
      /\ "metric" \in Text /\ "type" \in Text
  BY DEF Text
<1> QED BY <1>1, <1>2 DEF RequestOp, Proto, Mark, Key

\* pickleMaybeMemo skips the memo of every style.
LEMMA MemoSkipped ==
    ASSUME NEW style \in Styles, NEW x \in RequestOp, NEW s \in Seq(RequestOp), x.op # "q"
    PROVE  /\ pickleMaybeMemo(Memo(style) \o (<<x>> \o s)) = <<x>> \o s
           /\ Memo(style) \o (<<x>> \o s) \in Seq(RequestOp)
           /\ Memo(style) \o (<<x>> \o s) # Nil /\ Memo(style) \o (<<x>> \o s) # Empty
<1>1. PICK d : d = <<x>> \o s
  OBVIOUS
<1>2. d \in Seq(RequestOp) /\ d # Nil /\ d # Empty /\ Head(d) = x
  BY <1>1, FirstOp
<1>3. CASE style.memo
  <2>1. Memo(style) = <<Op("q", Nil)>>
    BY <1>3 DEF Memo
  <2>2. PICK q : q = Op("q", Nil)
    OBVIOUS
  <2>3. q \in RequestOp /\ q.op = "q"
    BY <2>2, Opcodes
  <2>4. PICK e : e = <<q>> \o d
    OBVIOUS
  <2>5. e \in Seq(RequestOp) /\ e # Nil /\ e # Empty /\ Head(e) = q /\ Tail(e) = d
    BY <1>2, <2>3, <2>4, FirstOp
  <2>6. pickleMaybeMemo(e) = d
    BY <2>3, <2>5 DEF pickleMaybeMemo
  <2> QED BY <1>1, <2>1, <2>2, <2>4, <2>5, <2>6
<1>4. CASE ~style.memo
  <2>1. Memo(style) = << >>
    BY <1>4 DEF Memo, Empty
  <2>2. << >> \o d = d
    BY <1>2
  <2>3. pickleMaybeMemo(d) = d
    BY <1>2 DEF pickleMaybeMemo
  <2> QED BY <1>1, <1>2, <2>1, <2>2, <2>3
<1> QED BY <1>3, <1>4

\* expectBytes takes the token off, and nothing else.
LEMMA Expected ==
    ASSUME NEW x \in RequestOp, NEW s \in Seq(RequestOp), NEW t
    PROVE  /\ expectBytes(<<x>> \o s, x) = s
           /\ x # t => expectBytes(<<x>> \o s, t) = Nil
<1>1. PICK d : d = <<x>> \o s
  OBVIOUS
<1>2. d # Nil /\ d # Empty /\ Head(d) = x /\ Tail(d) = s
  BY <1>1, FirstOp
<1> QED BY <1>1, <1>2 DEF expectBytes

\* A key and its value, as Encode writes them before s.
Pair(style, k, v, s) ==
    <<Key(k)>> \o (Memo(style) \o (<<Op(style.string, v)>> \o (Memo(style) \o s)))

\* field reads a pair and leaves what follows it.
LEMMA FieldRead ==
    ASSUME NEW style \in Styles, NEW k \in {"metric", "type"}, NEW v \in Text,
           NEW x \in RequestOp, NEW s \in Seq(RequestOp), x.op # "q"
    PROVE  LET d == Pair(style, k, v, <<x>> \o s) IN
           /\ d \in Seq(RequestOp)
           /\ field(d, k) = [value |-> v, rest |-> <<x>> \o s] /\ field(d, k) # Nil
           /\ expectBytes(d, Key(k)) # Nil
           /\ \A t : t # Key(k) => expectBytes(d, t) = Nil
<1>1. PICK m, r : m = Memo(style) \o (<<x>> \o s) /\ r = <<x>> \o s
  OBVIOUS
<1>2. m \in Seq(RequestOp) /\ r \in Seq(RequestOp) /\ pickleMaybeMemo(m) = r
  BY <1>1, MemoSkipped, FirstOp
<1>3. PICK y : y = Op(style.string, v)
  OBVIOUS
<1>4. y \in RequestOp /\ y.op \in {"U", "T", "X"} /\ y.op # "q" /\ y.arg = v
  <2>1. style.string \in {"U", "T", "X"}
    BY CarbonlinkAssumption
  <2> QED BY <1>3, <2>1, Opcodes
<1>5. PICK u, w : u = <<y>> \o m /\ w = Memo(style) \o (<<y>> \o m)
  OBVIOUS
<1>6. /\ w \in Seq(RequestOp) /\ w # Nil /\ w # Empty /\ pickleMaybeMemo(w) = u
      /\ u # Nil /\ u # Empty /\ Head(u) = y /\ Tail(u) = m
  <2>1. w \in Seq(RequestOp) /\ w # Nil /\ w # Empty /\ pickleMaybeMemo(w) = u
    BY <1>2, <1>4, <1>5, MemoSkipped
  <2>2. u # Nil /\ u # Empty /\ Head(u) = y /\ Tail(u) = m
    BY <1>2, <1>4, <1>5, FirstOp
  <2> QED BY <2>1, <2>2
<1>7. PICK d, a : d = <<a>> \o w /\ a = Key(k)
  OBVIOUS
<1>8. a \in RequestOp
  BY <1>7, Opcodes
<1>9. d = Pair(style, k, v, <<x>> \o s)
  BY <1>1, <1>3, <1>5, <1>7 DEF Pair
<1>10. d \in Seq(RequestOp)
  BY <1>6, <1>7, <1>8, FirstOp
<1>11. expectBytes(d, a) = w /\ \A t : t # a => expectBytes(d, t) = Nil
  BY <1>6, <1>7, <1>8, Expected
<1>12. field(d, k) = [value |-> v, rest |-> r]
  BY <1>2, <1>4, <1>6, <1>7, <1>11 DEF field
<1>13. [value |-> v, rest |-> r] # Nil
  <2>1. [value |-> v, rest |-> r] \in [value : Text, rest : Seq(RequestOp)]
    BY <1>2
  <2> QED BY <2>1, NilAssumption
<1> QED BY <1>1, <1>6, <1>7, <1>9, <1>10, <1>11, <1>12, <1>13

(***************************************************************************)
(* The request that Encode writes is the one that is read.                 *)
(***************************************************************************)
LEMMA Assoc ==
    \A a, b, c \in Seq(RequestOp) : (a \o b) \o c = a \o (b \o c)
BY ConcatAssociative

LEMMA ConcatType ==
    \A a, b \in Seq(RequestOp) : a \o b \in Seq(RequestOp)
OBVIOUS

LEMMA MemoType == \A style \in Styles : Memo(style) \in Seq(RequestOp)
BY Opcodes DEF Memo, Empty

\* A pair before a text.
LEMMA PairBefore ==
    ASSUME NEW style \in Styles, NEW k \in {"metric", "type"}, NEW v \in Text,
           NEW s \in Seq(RequestOp)
    PROVE  LET w == <<Key(k)>> \o Memo(style) \o <<Op(style.string, v)>> \o Memo(style) IN
           w \in Seq(RequestOp) /\ w \o s = Pair(style, k, v, s)
<1>1. PICK a, y, m : a = <<Key(k)>> /\ y = <<Op(style.string, v)>> /\ m = Memo(style)
  OBVIOUS
<1>2. a \in Seq(RequestOp) /\ y \in Seq(RequestOp) /\ m \in Seq(RequestOp)
  <2>1. style.string \in {"U", "T", "X"}
    BY CarbonlinkAssumption
  <2> QED BY <1>1, <2>1, Opcodes, MemoType
<1>3. PICK e, f, t, u : e = a \o m /\ f = e \o y /\ t = m \o s /\ u = y \o t
  OBVIOUS
<1>4. /\ e \in Seq(RequestOp) /\ f \in Seq(RequestOp) /\ f \o m \in Seq(RequestOp)
      /\ t \in Seq(RequestOp) /\ u \in Seq(RequestOp)
  BY <1>2, <1>3, ConcatType, Zenon
<1>5. (f \o m) \o s = f \o (m \o s)
  <2>1. f \in Seq(RequestOp) /\ m \in Seq(RequestOp) /\ s \in Seq(RequestOp)
    BY <1>2, <1>4
  <2> QED BY <2>1, Assoc, Zenon
<1>6. (e \o y) \o t = e \o (y \o t)
  <2>1. e \in Seq(RequestOp) /\ y \in Seq(RequestOp) /\ t \in Seq(RequestOp)
    BY <1>2, <1>4
  <2> QED BY <2>1, Assoc, Zenon
<1>7. (a \o m) \o u = a \o (m \o u)
  <2>1. a \in Seq(RequestOp) /\ m \in Seq(RequestOp) /\ u \in Seq(RequestOp)
    BY <1>2, <1>4
  <2> QED BY <2>1, Assoc, Zenon
<1>8. (f \o m) \o s = a \o (m \o u)
  BY <1>3, <1>5, <1>6, <1>7
<1> QED BY <1>1, <1>3, <1>4, <1>8 DEF Pair

\* The text of a request, from front to back.
LEMMA EncodeText ==
    ASSUME NEW req \in Request, NEW style \in Styles
    PROVE  LET other == IF style.first = "type" THEN "metric" ELSE "type" IN
           Encode(req, style) =
               <<Proto>> \o (Memo(style) \o (<<Mark>> \o
                   Pair(style, style.first, req[style.first],
                       Pair(style, other, req[other], <<Op("u", Nil)>> \o <<Op(".", Nil)>>))))
<1>1. PICK f, g : f = style.first /\ g = IF style.first = "type" THEN "metric" ELSE "type"
  OBVIOUS
<1>2. f \in {"metric", "type"} /\ g \in {"metric", "type"}
  BY <1>1, CarbonlinkAssumption
<1>3. req[f] \in Text /\ req[g] \in Text
  BY <1>2 DEF Request, Text
<1>4. PICK a, m, k, z :
        /\ a = <<Proto>> /\ m = Memo(style) /\ k = <<Mark>>
        /\ z = <<Op("u", Nil), Op(".", Nil)>>
  OBVIOUS
<1>5. /\ a \in Seq(RequestOp) /\ m \in Seq(RequestOp) /\ k \in Seq(RequestOp)
      /\ z \in Seq(RequestOp) /\ z = <<Op("u", Nil)>> \o <<Op(".", Nil)>>
  BY <1>4, Opcodes, MemoType
<1>6. PICK v, w : /\ v = <<Key(f)>> \o m \o <<Op(style.string, req[f])>> \o m
                  /\ w = <<Key(g)>> \o m \o <<Op(style.string, req[g])>> \o m
  OBVIOUS
<1>7. w \in Seq(RequestOp) /\ w \o z = Pair(style, g, req[g], z)
  <2>1. g \in {"metric", "type"} /\ req[g] \in Text /\ z \in Seq(RequestOp)
    BY <1>2, <1>3, <1>5
  <2>2. LET x == <<Key(g)>> \o Memo(style) \o <<Op(style.string, req[g])>> \o Memo(style) IN
        x \in Seq(RequestOp) /\ x \o z = Pair(style, g, req[g], z)
    BY <2>1, PairBefore, Zenon
  <2> QED BY <1>4, <1>6, <2>2
<1>8. w \o z \in Seq(RequestOp)
  BY <1>5, <1>7, ConcatType, Zenon
<1>9. v \in Seq(RequestOp) /\ v \o (w \o z) = Pair(style, f, req[f], w \o z)
  <2>1. f \in {"metric", "type"} /\ req[f] \in Text /\ w \o z \in Seq(RequestOp)
    BY <1>2, <1>3, <1>8
  <2>2. LET x == <<Key(f)>> \o Memo(style) \o <<Op(style.string, req[f])>> \o Memo(style) IN
        x \in Seq(RequestOp) /\ x \o (w \o z) = Pair(style, f, req[f], w \o z)
    BY <2>1, PairBefore, Zenon
  <2> QED BY <1>4, <1>6, <2>2
<1>10. Encode(req, style) = ((((a \o m) \o k) \o v) \o w) \o z
  BY <1>1, <1>4, <1>6 DEF Encode, Memo
<1>11. PICK b, c, d, x, y, t : /\ b = a \o m /\ c = b \o k /\ d = c \o v
                               /\ t = w \o z /\ x = v \o t /\ y = k \o x
  OBVIOUS
<1>12. /\ b \in Seq(RequestOp) /\ c \in Seq(RequestOp) /\ d \in Seq(RequestOp)
       /\ t \in Seq(RequestOp) /\ x \in Seq(RequestOp) /\ y \in Seq(RequestOp)
  BY <1>5, <1>7, <1>9, <1>11, ConcatType, Zenon
<1>13. (d \o w) \o z = d \o (w \o z)
  <2>1. d \in Seq(RequestOp) /\ w \in Seq(RequestOp) /\ z \in Seq(RequestOp)
    BY <1>5, <1>7, <1>12
  <2> QED BY <2>1, Assoc, Zenon
<1>14. (c \o v) \o t = c \o (v \o t)
  <2>1. c \in Seq(RequestOp) /\ v \in Seq(RequestOp) /\ t \in Seq(RequestOp)
    BY <1>9, <1>12
  <2> QED BY <2>1, Assoc, Zenon
<1>15. (b \o k) \o x = b \o (k \o x)
  <2>1. b \in Seq(RequestOp) /\ k \in Seq(RequestOp) /\ x \in Seq(RequestOp)
    BY <1>5, <1>12
  <2> QED BY <2>1, Assoc, Zenon
<1>16. (a \o m) \o y = a \o (m \o y)
  <2>1. a \in Seq(RequestOp) /\ m \in Seq(RequestOp) /\ y \in Seq(RequestOp)
    BY <1>5, <1>12
  <2> QED BY <2>1, Assoc, Zenon
<1>17. (d \o w) \o z = a \o (m \o y)
  BY <1>11, <1>13, <1>14, <1>15, <1>16
<1>18. y = k \o Pair(style, f, req[f], Pair(style, g, req[g], z))
  BY <1>7, <1>9, <1>11
<1> QED BY <1>1, <1>4, <1>5, <1>10, <1>11, <1>17, <1>18

\* ParseCarbonlinkRequest reads a request as it was meant: whichever key comes
\* first, with memos or without, and whatever the string opcode.
LEMMA RequestRead ==
    ASSUME NEW req \in Request, NEW style \in Styles
    PROVE  ParseCarbonlinkRequest(Encode(req, style)) = req
<1>1. PICK f, g : f = style.first /\ g = IF style.first = "type" THEN "metric" ELSE "type"
  OBVIOUS
<1>2. \/ f = "metric" /\ g = "type"
      \/ f = "type" /\ g = "metric"
  BY <1>1, CarbonlinkAssumption
<1>3. req[f] \in Text /\ req[g] \in Text
  BY <1>2 DEF Request, Text
<1>4. PICK u, z : u = Op("u", Nil) /\ z = <<Op(".", Nil)>>
  OBVIOUS
<1>5. u \in RequestOp /\ u.op # "q" /\ z \in Seq(RequestOp)
  BY <1>4, Opcodes
<1>6. PICK two : two = Pair(style, g, req[g], <<u>> \o z)
  OBVIOUS
<1>7. /\ two \in Seq(RequestOp) /\ field(two, g) # Nil
      /\ field(two, g) = [value |-> req[g], rest |-> <<u>> \o z]
  <2>1. g \in {"metric", "type"}
    BY <1>2
  <2> QED BY <1>3, <1>5, <1>6, <2>1, FieldRead, Zenon
<1>8. PICK x, s : /\ x = Key(g)
                  /\ s = Memo(style) \o (<<Op(style.string, req[g])>> \o (Memo(style) \o (<<u>> \o z)))
  OBVIOUS
<1>9. two = <<x>> \o s
  BY <1>6, <1>8 DEF Pair
<1>10. x \in RequestOp /\ x.op # "q"
  BY <1>2, <1>8, Opcodes
<1>11. s \in Seq(RequestOp)
  <2>1. style.string \in {"U", "T", "X"}
    BY CarbonlinkAssumption
  <2>2. PICK y : y = Op(style.string, req[g])
    OBVIOUS
  <2>3. y \in RequestOp /\ y.op # "q"
    BY <1>3, <2>1, <2>2, Opcodes
  <2>4. Memo(style) \o (<<u>> \o z) \in Seq(RequestOp)
    BY <1>5, MemoSkipped
  <2> QED BY <1>8, <2>2, <2>3, <2>4, MemoSkipped
<1>12. PICK body : body = Pair(style, f, req[f], two)
  OBVIOUS
<1>13. /\ body \in Seq(RequestOp) /\ field(body, f) # Nil
       /\ field(body, f) = [value |-> req[f], rest |-> two]
       /\ expectBytes(body, Key(f)) # Nil
       /\ \A t : t # Key(f) => expectBytes(body, t) = Nil
  <2>1. f \in {"metric", "type"}
    BY <1>2
  <2>2. body = Pair(style, f, req[f], <<x>> \o s)
    BY <1>9, <1>12
  <2>3. /\ body \in Seq(RequestOp) /\ field(body, f) # Nil
        /\ field(body, f) = [value |-> req[f], rest |-> <<x>> \o s]
        /\ expectBytes(body, Key(f)) # Nil
        /\ \A t : t # Key(f) => expectBytes(body, t) = Nil
    <3>1. req[f] \in Text
      BY <1>3
    <3>2. x \in RequestOp /\ x.op # "q" /\ s \in Seq(RequestOp)
      BY <1>10, <1>11
    <3>3. LET d == Pair(style, f, req[f], <<x>> \o s) IN
          /\ d \in Seq(RequestOp)
          /\ field(d, f) = [value |-> req[f], rest |-> <<x>> \o s] /\ field(d, f) # Nil
          /\ expectBytes(d, Key(f)) # Nil
          /\ \A t : t # Key(f) => expectBytes(d, t) = Nil
      BY <2>1, <3>1, <3>2, FieldRead, Zenon
    <3> QED BY <2>2, <3>3, Zenon
  <2> QED BY <1>9, <2>3
<1>14. PICK d : d = Encode(req, style)
  OBVIOUS
<1>15. d = <<Proto>> \o (Memo(style) \o (<<Mark>> \o body))
  BY <1>1, <1>4, <1>6, <1>12, <1>14, EncodeText
<1>16. expectBytes(pickleMaybeMemo(expectBytes(d, Proto)), Mark) = body
  <2>1. PICK k, e : k = Mark /\ e = Memo(style) \o (<<k>> \o body)
    OBVIOUS
  <2>2. k \in RequestOp /\ k.op # "q" /\ Proto \in RequestOp
    BY <2>1, Opcodes
  <2>3. e \in Seq(RequestOp) /\ pickleMaybeMemo(e) = <<k>> \o body
    BY <1>13, <2>1, <2>2, MemoSkipped
  <2>4. expectBytes(d, Proto) = e
    BY <1>15, <2>1, <2>2, <2>3, Expected
  <2>5. expectBytes(<<k>> \o body, k) = body
    BY <1>13, <2>2, Expected
  <2> QED BY <2>1, <2>3, <2>4, <2>5
<1>17. req = [type |-> req.type, metric |-> req.metric]
  BY DEF Request
<1>18. CASE f = "metric"
  <2>1. expectBytes(body, Key("metric")) # Nil /\ g = "type"
    BY <1>2, <1>13, <1>18
  <2>2. field(body, "metric") = [value |-> req.metric, rest |-> two] /\ field(body, "metric") # Nil
    BY <1>13, <1>18
  <2>3. field(two, "type") = [value |-> req.type, rest |-> <<u>> \o z] /\ field(two, "type") # Nil
    BY <1>7, <2>1
  <2>4. ParseCarbonlinkRequest(d) = [type |-> req.type, metric |-> req.metric]
    BY <1>16, <2>1, <2>2, <2>3 DEF ParseCarbonlinkRequest
  <2> QED BY <1>14, <1>17, <2>4
<1>19. CASE f = "type"
  <2>1. expectBytes(body, Key("metric")) = Nil /\ g = "metric"
    BY <1>2, <1>13, <1>19, Opcodes
  <2>2. field(body, "type") = [value |-> req.type, rest |-> two] /\ field(body, "type") # Nil
    BY <1>13, <1>19
  <2>3. field(two, "metric") = [value |-> req.metric, rest |-> <<u>> \o z] /\ field(two, "metric") # Nil
    BY <1>7, <2>1
  <2>4. ParseCarbonlinkRequest(d) = [type |-> req.type, metric |-> req.metric]
    BY <1>16, <2>1, <2>2, <2>3 DEF ParseCarbonlinkRequest
  <2> QED BY <1>14, <1>17, <2>4
<1> QED BY <1>2, <1>18, <1>19

\* A key that is a long string is an error.
LEMMA RubbishRefused == ParseCarbonlinkRequest(Rubbish) = Nil
<1>1. PICK a, k, x : a = Proto /\ k = Mark /\ x = Op("X", "metric")
  OBVIOUS
<1>2. /\ a \in RequestOp /\ k \in RequestOp /\ x \in RequestOp /\ k.op # "q"
      /\ x # Key("metric") /\ x # Key("type")
  BY <1>1, Opcodes DEF Text
<1>3. PICK n, body, e, d : n = << >> /\ body = <<x>> \o n /\ e = <<k>> \o body /\ d = <<a>> \o e
  OBVIOUS
<1>4. n \in Seq(RequestOp)
  BY <1>3
<1>5. body \in Seq(RequestOp) /\ e \in Seq(RequestOp) /\ d \in Seq(RequestOp)
  BY <1>2, <1>3, <1>4, FirstOp
<1>6. Rubbish = d
  <2>1. Rubbish = <<a, k, x>>
    BY <1>1 DEF Rubbish
  <2>2. /\ Len(<<a>>) = 1 /\ Len(<<k>>) = 1 /\ Len(<<x>>) = 1
        /\ <<a>> \in Seq(RequestOp) /\ <<k>> \in Seq(RequestOp) /\ <<x>> \in Seq(RequestOp)
    BY <1>2
  <2>3. Len(body) = 1 /\ body[1] = x
    BY <1>3, <1>4, <2>2
  <2>4. Len(e) = 2 /\ e[1] = k /\ e[2] = x
    BY <1>3, <1>5, <2>2, <2>3
  <2>5. Len(d) = 3 /\ d[1] = a /\ d[2] = k /\ d[3] = x
    BY <1>3, <1>5, <2>2, <2>4
  <2> QED BY <1>2, <1>5, <2>1, <2>5
<1>7. expectBytes(d, Proto) = e
  BY <1>1, <1>2, <1>3, <1>5, Expected
<1>8. pickleMaybeMemo(e) = e
  <2>1. Head(e) = k /\ e # Empty /\ e # Nil
    BY <1>2, <1>3, <1>5, FirstOp
  <2> QED BY <1>2, <2>1 DEF pickleMaybeMemo
<1>9. expectBytes(e, Mark) = body
  BY <1>1, <1>2, <1>3, <1>5, Expected
<1>10. expectBytes(body, Key("metric")) = Nil /\ expectBytes(body, Key("type")) = Nil
  <2>1. x \in RequestOp /\ x # Key("metric") /\ x # Key("type") /\ n \in Seq(RequestOp)
    BY <1>2, <1>4
  <2>2. \A t : x # t => expectBytes(<<x>> \o n, t) = Nil
    BY <2>1, Expected
  <2> QED BY <1>3, <2>1, <2>2
<1>11. field(body, "type") = Nil
  BY <1>10 DEF field, pickleMaybeMemo
<1> QED BY <1>6, <1>7, <1>8, <1>9, <1>10, <1>11 DEF ParseCarbonlinkRequest

(***************************************************************************)
(* The invariant.                                                          *)
(***************************************************************************)
States == {"none", "read", "send", "wait", "write", "closed"}
Packet == {packReply(a) : a \in {Nil} \cup Answer} \cup {ErrorReply(t) : t \in Types}

Shape ==
    /\ asked \in [Client -> Seq(Request \cup {Nil})]
    /\ wire \in [Client -> Seq(Frames)]
    /\ handlerPC \in [Client -> States]
    /\ current \in [Client -> QueryId \cup {Nil}]
    /\ packed \in [Client -> Packet \cup {Nil}]
    /\ replies \in [Client -> Seq(Packet)]
    /\ query \in [QueryId -> QueryObj \cup {Nil}]
    /\ queryChan \in Seq(QueryId) /\ taken \subseteq QueryId

\* The queries in the cache's channel.
Queued == {queryChan[i] : i \in 1..Len(queryChan)}

\* A query is in one place on its way to the cache's answer, and not answered
\* while it is there.
OnePlace ==
    /\ \A i, j \in 1..Len(queryChan) : queryChan[i] = queryChan[j] => i = j
    /\ Queued \cap taken = {}
    /\ \A q \in Queued \cup taken : query[q] # Nil /\ query[q].answer = Nil
    /\ \A c \in Client : handlerPC[c] = "send" =>
           current[c] \notin Queued \cup taken /\ query[current[c]].answer = Nil

\* r is the empty reply, or the packed answer to q.
Replied(r, q) == r = packReply(Nil) \/ (q.answer # Nil /\ r = packReply(q.answer))

\* A connection's queries are the first k of its numbers, each for the metric of
\* its request.
Made(c, k) ==
    /\ \A i \in 1..MaxRequests : query[<<c, i>>] # Nil <=> i <= k
    /\ k <= Len(asked[c]) /\ Len(asked[c]) <= MaxRequests
    /\ \A i \in 1..k : asked[c][i] = [type |-> "cache-query", metric |-> query[<<c, i>>].metric]

\* What is still on the wire is what the client asked after them.
Unread(c, k) ==
    handlerPC[c] # "closed" =>
        /\ k + Len(wire[c]) = Len(asked[c])
        /\ \A i \in 1..Len(wire[c]) : Parsed[wire[c][i]] = asked[c][k + i]

\* The replies so far: one for each query but the one in hand.
Answering(c, k) ==
    /\ \A n \in 1..k : n <= Len(replies[c]) => Replied(replies[c][n], query[<<c, n>>])
    /\ handlerPC[c] \in {"none", "read"} => Len(replies[c]) = k
    /\ handlerPC[c] \in {"send", "wait", "write"} => k > 0 /\ Len(replies[c]) = k - 1
    /\ handlerPC[c] \in {"send", "wait"} => current[c] = <<c, k>>
    /\ handlerPC[c] = "write" => Replied(packed[c], query[<<c, k>>])
    /\ handlerPC[c] = "closed" =>
           \/ Len(replies[c]) <= k
           \/ /\ Len(replies[c]) = k + 1 /\ k + 1 <= Len(asked[c]) /\ asked[c][k + 1] # Nil
              /\ asked[c][k + 1].type # "cache-query"
              /\ replies[c][k + 1] = ErrorReply(asked[c][k + 1].type)

Progress(c, k) == Made(c, k) /\ Unread(c, k) /\ Answering(c, k)

LinkInv ==
    /\ Shape /\ OnePlace
    /\ \A c \in Client : \E k \in 0..MaxRequests : Progress(c, k)

(***************************************************************************)
(* Frames, numbers and records.                                            *)
(***************************************************************************)
\* What the handler reads of a frame is what the client meant.
LEMMA FrameRead ==
    /\ Rubbish \in Frames /\ Parsed[Rubbish] = Nil
    /\ \A req \in Request, s \in Styles :
           Encode(req, s) \in Frames /\ Parsed[Encode(req, s)] = req
<1>1. \A d \in Frames : Parsed[d] = ParseCarbonlinkRequest(d)
  BY DEF Parsed
<1>2. Rubbish \in Frames /\ \A req \in Request, s \in Styles : Encode(req, s) \in Frames
  BY DEF Frames
<1>3. Parsed[Rubbish] = Nil
  BY <1>1, <1>2, RubbishRefused
<1>4. ASSUME NEW req \in Request, NEW s \in Styles PROVE Parsed[Encode(req, s)] = req
  <2>1. Parsed[Encode(req, s)] = ParseCarbonlinkRequest(Encode(req, s))
    BY <1>1, <1>2, Zenon
  <2> QED BY <2>1, RequestRead
<1> QED BY <1>2, <1>3, <1>4

\* A connection that has made k queries gives the next one the number k + 1.
LEMMA NextNumber ==
    ASSUME NEW c \in Client, NEW k \in 0..MaxRequests,
           \A i \in 1..MaxRequests : query[<<c, i>>] # Nil <=> i <= k
    PROVE  Number(c) = k + 1
<1>1. MaxRequests \in Nat
  BY CarbonlinkAssumption
<1>2. PICK S : S = {q \in QueryId : q[1] = c /\ query[q] # Nil}
  OBVIOUS
<1>3. \A i \in 1..k : <<c, i>> \in S
  BY <1>1, <1>2 DEF QueryId
<1>4. \A q \in S : q[2] \in 1..k /\ q = <<c, q[2]>>
  <2>1. TAKE q \in S
  <2>2. q \in Client \X (1..MaxRequests) /\ q[1] = c /\ query[q] # Nil
    BY <1>2 DEF QueryId
  <2>3. PICK i \in 1..MaxRequests : q = <<c, i>>
    BY <2>2
  <2> QED BY <1>1, <2>2, <2>3
<1>5. PICK f : f = [i \in 1..k |-> <<c, i>>]
  OBVIOUS
<1>6. f \in Bijection(1..k, S)
  <2>1. f \in [1..k -> S]
    BY <1>3, <1>5
  <2>2. \A i, j \in 1..k : f[i] = f[j] => i = j
    BY <1>5
  <2>3. \A q \in S : \E i \in 1..k : f[i] = q
    BY <1>4, <1>5
  <2> QED BY <2>1, <2>2, <2>3 DEF Bijection, Injection, Surjection, IsInjective
<1>7. IsFiniteSet(1..k) /\ Cardinality(1..k) = k
  <2>1. 1 \in Int /\ k \in Int
    BY <1>1
  <2>2. IsFiniteSet(1..k) /\ Cardinality(1..k) = IF 1 > k THEN 0 ELSE k - 1 + 1
    BY <2>1, FS_Interval
  <2> QED BY <1>1, <2>2
<1>8. Cardinality(S) = k
  <2>1. ExistsBijection(1..k, S)
    BY <1>6 DEF ExistsBijection
  <2> QED BY <1>7, <2>1, FS_Bijection
<1> QED BY <1>1, <1>2, <1>8 DEF Number

\* Queries of a connection are not changed but by an answer to an open one.
Kept(c) ==
    \A i \in 1..MaxRequests :
        /\ query'[<<c, i>>] # Nil <=> query[<<c, i>>] # Nil
        /\ query[<<c, i>>] # Nil =>
              /\ query'[<<c, i>>].metric = query[<<c, i>>].metric
              /\ query[<<c, i>>].answer # Nil => query'[<<c, i>>].answer = query[<<c, i>>].answer

LEMMA MadeKept ==
    ASSUME NEW c \in Client, NEW k \in 0..MaxRequests, Made(c, k), Kept(c), asked'[c] = asked[c]
    PROVE  Made(c, k)'
<1>1. MaxRequests \in Nat
  BY CarbonlinkAssumption
<1>2. \A i \in 1..MaxRequests : query'[<<c, i>>] # Nil <=> i <= k
  BY DEF Kept, Made
<1>3. ASSUME NEW i \in 1..k
      PROVE  asked'[c][i] = [type |-> "cache-query", metric |-> query'[<<c, i>>].metric]
  <2>1. i \in 1..MaxRequests /\ i <= k
    BY <1>1
  <2>2. query'[<<c, i>>].metric = query[<<c, i>>].metric
    BY <2>1 DEF Kept, Made
  <2>3. asked[c][i] = [type |-> "cache-query", metric |-> query[<<c, i>>].metric]
    BY DEF Made
  <2> QED BY <2>2, <2>3
<1> QED BY <1>2, <1>3 DEF Made

\* A reply stays the right one.
LEMMA RepliedKept ==
    ASSUME NEW c \in Client, NEW k \in 0..MaxRequests, Made(c, k), Kept(c),
           NEW n \in 1..k, NEW r, Replied(r, query[<<c, n>>])
    PROVE  Replied(r, query'[<<c, n>>])
<1>1. n \in 1..MaxRequests /\ n <= k
  BY CarbonlinkAssumption
<1>2. query[<<c, n>>].answer # Nil => query'[<<c, n>>].answer = query[<<c, n>>].answer
  BY <1>1 DEF Kept, Made
<1> QED BY <1>2 DEF Replied

\* A connection that a step does not touch.
LEMMA Elsewhere ==
    ASSUME NEW c \in Client, NEW k \in 0..MaxRequests, Progress(c, k), Kept(c),
           asked'[c] = asked[c], wire'[c] = wire[c], handlerPC'[c] = handlerPC[c],
           current'[c] = current[c], packed'[c] = packed[c], replies'[c] = replies[c]
    PROVE  Progress(c, k)'
<1>1. Made(c, k) /\ Unread(c, k) /\ Answering(c, k)
  BY DEF Progress
<1>2. Made(c, k)'
  BY <1>1, MadeKept
<1>3. Unread(c, k)'
  BY <1>1 DEF Unread
<1>4. \A n \in 1..k : \A r : Replied(r, query[<<c, n>>]) => Replied(r, query'[<<c, n>>])
  BY <1>1, RepliedKept
<1>5. Answering(c, k)'
  <2>1. \A n \in 1..k : n <= Len(replies[c]) => Replied(replies[c][n], query'[<<c, n>>])
    BY <1>1, <1>4 DEF Answering
  <2>2. handlerPC[c] = "write" => k \in 1..k
    BY <1>1, CarbonlinkAssumption DEF Answering
  <2>3. handlerPC[c] = "write" => Replied(packed[c], query'[<<c, k>>])
    BY <1>1, <1>4, <2>2 DEF Answering
  <2> QED BY <1>1, <2>1, <2>3 DEF Answering
<1> QED BY <1>2, <1>3, <1>5 DEF Progress

\* A connection that is closed without a reply.
LEMMA Closing ==
    ASSUME NEW c \in Client, NEW k \in 0..MaxRequests, Progress(c, k), Kept(c),
           asked'[c] = asked[c], replies'[c] = replies[c], Len(replies[c]) \in Nat,
           handlerPC[c] \in {"read", "write"}, handlerPC'[c] = "closed"
    PROVE  Progress(c, k)'
<1>1. Made(c, k) /\ Unread(c, k) /\ Answering(c, k)
  BY DEF Progress
<1>2. Made(c, k)'
  BY <1>1, MadeKept
<1>3. Unread(c, k)'
  BY DEF Unread
<1>4. Len(replies[c]) <= k
  BY <1>1, CarbonlinkAssumption DEF Answering
<1>5. \A n \in 1..k : n <= Len(replies[c]) => Replied(replies[c][n], query'[<<c, n>>])
  BY <1>1, RepliedKept DEF Answering
<1>6. Answering(c, k)'
  BY <1>4, <1>5 DEF Answering
<1> QED BY <1>2, <1>3, <1>6 DEF Progress

LEMMA SameQueries ==
    ASSUME query' = query
    PROVE  \A c \in Client : Kept(c)
BY DEF Kept

\* A step that moves no query leaves each in its place.
LEMMA StayPlaced ==
    ASSUME OnePlace, query' = query, queryChan' = queryChan, taken' = taken,
           \A c \in Client : handlerPC'[c] = "send" => handlerPC[c] = "send" /\ current'[c] = current[c]
    PROVE  OnePlace'
<1>1. Queued' = Queued
  BY DEF Queued
<1>2. ASSUME NEW c \in Client, handlerPC'[c] = "send"
      PROVE  current'[c] \notin (Queued \cup taken)' /\ query'[current'[c]].answer = Nil
  BY <1>1, <1>2 DEF OnePlace
<1> QED BY <1>1, <1>2 DEF OnePlace

(***************************************************************************)
(* The steps.                                                              *)
(***************************************************************************)
\* What belongs to a connection stays as it is.
Untouched(d) ==
    /\ Kept(d)
    /\ asked'[d] = asked[d] /\ wire'[d] = wire[d] /\ handlerPC'[d] = handlerPC[d]
    /\ current'[d] = current[d] /\ packed'[d] = packed[d] /\ replies'[d] = replies[d]

\* A step of one connection, whose new count of queries is k.
LEMMA OneConnection ==
    ASSUME LinkInv, Shape', OnePlace', NEW c \in Client, NEW k \in 0..MaxRequests, Progress(c, k)',
           \A d \in Client \ {c} : Untouched(d)
    PROVE  LinkInv'
<1>1. ASSUME NEW d \in Client PROVE \E n \in 0..MaxRequests : Progress(d, n)'
  <2>1. CASE d = c
    BY <2>1
  <2>2. CASE d # c
    <3>1. PICK n \in 0..MaxRequests : Progress(d, n)
      BY DEF LinkInv
    <3>2. Untouched(d)
      BY <2>2
    <3>3. Progress(d, n)'
      BY <3>1, <3>2, Elsewhere DEF Untouched
    <3> QED BY <3>3
  <2> QED BY <2>1, <2>2
<1> QED BY <1>1 DEF LinkInv

\* A step of the listener, of a client that goes away or of the cache.
LEMMA NoConnection ==
    ASSUME LinkInv, Shape', OnePlace', \A d \in Client : Untouched(d)
    PROVE  LinkInv'
<1>1. ASSUME NEW d \in Client PROVE \E n \in 0..MaxRequests : Progress(d, n)'
  <2>1. PICK n \in 0..MaxRequests : Progress(d, n)
    BY DEF LinkInv
  <2>2. Untouched(d)
    OBVIOUS
  <2>3. Progress(d, n)'
    BY <2>1, <2>2, Elsewhere DEF Untouched
  <2> QED BY <2>3
<1> QED BY <1>1 DEF LinkInv

LEMMA QuietLinkStep ==
    ASSUME LinkInv, UNCHANGED <<asked, wire, handlerVars, query, queryChan, taken, replies>>
    PROVE  LinkInv'
<1>1. Shape'
  BY DEF LinkInv, Shape, handlerVars
<1>2. OnePlace'
  BY StayPlaced DEF LinkInv, handlerVars
<1>3. \A d \in Client : Untouched(d)
  BY SameQueries DEF Untouched, handlerVars
<1> QED BY <1>1, <1>2, <1>3, NoConnection

LEMMA CacheTakeStep ==
    ASSUME LinkInv, CacheTake
    PROVE  LinkInv'
<1>1. /\ queryChan \in Seq(QueryId) /\ queryChan # << >> /\ queryChan' = Tail(queryChan)
      /\ taken' = taken \cup {Head(queryChan)}
      /\ UNCHANGED <<asked, wire, handlerPC, current, packed, query, replies>>
  BY DEF LinkInv, Shape, CacheTake, Empty, clientVars, handlerVars
<1>2. PICK s, t, n : s = queryChan /\ t = Tail(queryChan) /\ n = Len(s)
  OBVIOUS
<1>3. /\ n \in Nat \ {0} /\ Len(t) = n - 1 /\ t \in Seq(QueryId)
      /\ Head(s) = s[1] /\ s[1] \in QueryId
      /\ \A i \in 1..(n - 1) : t[i] = s[i + 1] /\ i + 1 \in 1..n
  BY <1>1, <1>2
<1>4. Shape'
  BY <1>1, <1>2, <1>3 DEF LinkInv, Shape
<1>5. \A i, j \in 1..n : s[i] = s[j] => i = j
  BY <1>2 DEF LinkInv, OnePlace
<1>6. Queued = {s[i] : i \in 1..n} /\ Queued' = {t[i] : i \in 1..(n - 1)}
  BY <1>1, <1>2, <1>3 DEF Queued
<1>7. s[1] \in Queued /\ Queued' \subseteq Queued \ {s[1]}
  BY <1>3, <1>5, <1>6
<1>8. taken' = taken \cup {s[1]}
  BY <1>1, <1>2, <1>3
<1>9. OnePlace'
  <2>1. \A i, j \in 1..(n - 1) : t[i] = t[j] => i = j
    BY <1>3, <1>5
  <2>2. Queued' \cap taken' = {}
    BY <1>7, <1>8 DEF LinkInv, OnePlace
  <2>3. Queued' \cup taken' \subseteq Queued \cup taken
    BY <1>7, <1>8
  <2>4. \A q \in Queued' \cup taken' : query'[q] # Nil /\ query'[q].answer = Nil
    BY <1>1, <2>3 DEF LinkInv, OnePlace
  <2>5. \A c \in Client : handlerPC'[c] = "send" =>
            current'[c] \notin Queued' \cup taken' /\ query'[current'[c]].answer = Nil
    BY <1>1, <2>3 DEF LinkInv, OnePlace
  <2>6. \A i, j \in 1..Len(queryChan') : queryChan'[i] = queryChan'[j] => i = j
    BY <1>1, <1>2, <1>3, <2>1
  <2> QED BY <2>2, <2>4, <2>5, <2>6 DEF OnePlace
<1>10. \A d \in Client : Untouched(d)
  BY <1>1, SameQueries DEF Untouched
<1> QED BY <1>4, <1>9, <1>10, NoConnection

\* The cache answers a query that is open, once.
LEMMA CacheAnswerStep ==
    ASSUME LinkInv, NEW q \in QueryId, NEW a \in Answers, CacheAnswer(q, a)
    PROVE  LinkInv'
<1>1. /\ q \in taken /\ taken' = taken \ {q}
      /\ query' = [query EXCEPT ![q].answer = Answered(query[q].metric, a)]
      /\ UNCHANGED <<asked, wire, handlerPC, current, packed, queryChan, replies>>
  BY DEF CacheAnswer, clientVars, handlerVars
<1>2. query \in [QueryId -> QueryObj \cup {Nil}] /\ taken \subseteq QueryId
  BY DEF LinkInv, Shape
<1>3. query[q] # Nil /\ query[q].answer = Nil /\ query[q] \in QueryObj
  BY <1>1, <1>2 DEF LinkInv, OnePlace
<1>4. PICK m, r : m = query[q].metric /\ r = Answered(query[q].metric, a)
  OBVIOUS
<1>5. m \in Metric /\ r \in Answer /\ query[q] = [metric |-> m, answer |-> Nil]
  <2>1. m \in Metric /\ query[q] = [metric |-> m, answer |-> Nil]
    BY <1>3, <1>4 DEF QueryObj
  <2> QED BY <1>4, <2>1 DEF Answer
<1>6. query'[q] = [metric |-> m, answer |-> r] /\ \A o \in QueryId \ {q} : query'[o] = query[o]
  BY <1>1, <1>2, <1>4, <1>5
<1>7. query'[q] \in QueryObj /\ query'[q] # Nil
  <2>1. query'[q] \in QueryObj
    BY <1>5, <1>6 DEF QueryObj
  <2> QED BY <2>1, NilAssumption
<1>8. query' \in [QueryId -> QueryObj \cup {Nil}]
  BY <1>1, <1>2, <1>6, <1>7
<1>9. Shape'
  BY <1>1, <1>2, <1>8 DEF LinkInv, Shape
<1>10. Queued' = Queued
  BY <1>1 DEF Queued
<1>11. Queued \subseteq QueryId \ {q}
  <2>1. Queued \subseteq QueryId
    BY DEF LinkInv, Shape, Queued
  <2> QED BY <1>1, <2>1 DEF LinkInv, OnePlace
<1>12. OnePlace'
  <2>1. \A o \in Queued \cup taken' : query'[o] # Nil /\ query'[o].answer = Nil
    BY <1>1, <1>2, <1>6, <1>11 DEF LinkInv, OnePlace
  <2>2. ASSUME NEW c \in Client, handlerPC[c] = "send"
        PROVE  current[c] \notin Queued \cup taken' /\ query'[current[c]].answer = Nil
    <3>1. current[c] \notin Queued \cup taken /\ query[current[c]].answer = Nil
      BY <2>2 DEF LinkInv, OnePlace
    <3>2. current[c] \in QueryId
      <4>1. PICK k \in 0..MaxRequests : Progress(c, k)
        BY DEF LinkInv
      <4>2. current[c] = <<c, k>> /\ k > 0
        BY <2>2, <4>1 DEF Progress, Answering
      <4> QED BY <4>2, CarbonlinkAssumption DEF QueryId
    <3> QED BY <1>1, <1>6, <3>1, <3>2
  <2>3. Queued \cap taken' = {}
    BY <1>1 DEF LinkInv, OnePlace
  <2> QED BY <1>1, <1>10, <2>1, <2>2, <2>3 DEF LinkInv, OnePlace
<1>13. \A d \in Client : Kept(d)
  <2>1. \A o \in QueryId : /\ query'[o] # Nil <=> query[o] # Nil
                           /\ query[o] # Nil =>
                                /\ query'[o].metric = query[o].metric
                                /\ query[o].answer # Nil => query'[o].answer = query[o].answer
    BY <1>3, <1>5, <1>6, <1>7
  <2>2. \A d \in Client, i \in 1..MaxRequests : <<d, i>> \in QueryId
    BY DEF QueryId
  <2> QED BY <2>1, <2>2 DEF Kept
<1>14. \A d \in Client : Untouched(d)
  BY <1>1, <1>13 DEF Untouched
<1> QED BY <1>9, <1>12, <1>14, NoConnection

LEMMA AcceptStep ==
    ASSUME LinkInv, NEW c \in Client, Accept(c)
    PROVE  LinkInv'
<1>1. /\ handlerPC[c] = "none" /\ handlerPC' = [handlerPC EXCEPT ![c] = "read"]
      /\ UNCHANGED <<asked, wire, current, packed, query, queryChan, taken, replies>>
  BY DEF Accept, cacheVars
<1>2. handlerPC \in [Client -> States]
  BY DEF LinkInv, Shape
<1>3. handlerPC'[c] = "read" /\ \A d \in Client \ {c} : handlerPC'[d] = handlerPC[d]
  BY <1>1, <1>2
<1>4. Shape'
  BY <1>1, <1>2 DEF LinkInv, Shape, States
<1>5. OnePlace'
  BY <1>1, <1>3, StayPlaced DEF LinkInv
<1>6. PICK k \in 0..MaxRequests : Progress(c, k)
  BY DEF LinkInv
<1>7. Progress(c, k)'
  <2>1. Made(c, k)'
    BY <1>1, <1>6, SameQueries, MadeKept DEF Progress
  <2>2. Unread(c, k)'
    BY <1>1, <1>3, <1>6 DEF Progress, Unread
  <2>3. Answering(c, k)'
    BY <1>1, <1>3, <1>6 DEF Progress, Answering
  <2> QED BY <2>1, <2>2, <2>3 DEF Progress
<1>8. \A d \in Client \ {c} : Untouched(d)
  BY <1>1, <1>3, SameQueries DEF Untouched
<1> QED BY <1>4, <1>5, <1>7, <1>8, OneConnection

\* A client asks: a frame goes on the wire that is read as req.
LEMMA ClientSendStep ==
    ASSUME LinkInv, NEW c \in Client, NEW req \in Request \cup {Nil}, NEW f \in Frames,
           Parsed[f] = req, ClientSend(c, req, f)
    PROVE  LinkInv'
<1>1. /\ Len(asked[c]) < MaxRequests
      /\ asked' = [asked EXCEPT ![c] = Append(@, req)] /\ wire' = [wire EXCEPT ![c] = Append(@, f)]
      /\ UNCHANGED <<handlerPC, current, packed, query, queryChan, taken, replies>>
  BY DEF ClientSend, handlerVars, cacheVars
<1>2. asked \in [Client -> Seq(Request \cup {Nil})] /\ wire \in [Client -> Seq(Frames)]
  BY DEF LinkInv, Shape
<1>3. PICK s, t, l, n : s = asked[c] /\ t = wire[c] /\ l = Len(s) /\ n = Len(t)
  OBVIOUS
<1>4. s \in Seq(Request \cup {Nil}) /\ t \in Seq(Frames) /\ l \in Nat /\ n \in Nat
  BY <1>2, <1>3
<1>5. /\ asked'[c] = Append(s, req) /\ wire'[c] = Append(t, f)
      /\ \A d \in Client \ {c} : asked'[d] = asked[d] /\ wire'[d] = wire[d]
  BY <1>1, <1>2, <1>3
<1>6. /\ Append(s, req) \in Seq(Request \cup {Nil}) /\ Len(Append(s, req)) = l + 1
      /\ Append(s, req)[l + 1] = req /\ \A i \in 1..l : Append(s, req)[i] = s[i]
      /\ Append(t, f) \in Seq(Frames) /\ Len(Append(t, f)) = n + 1
      /\ Append(t, f)[n + 1] = f /\ \A i \in 1..n : Append(t, f)[i] = t[i]
  BY <1>3, <1>4
<1>7. Shape'
  <2>1. asked' \in [Client -> Seq(Request \cup {Nil})] /\ wire' \in [Client -> Seq(Frames)]
    BY <1>1, <1>2, <1>3, <1>6
  <2> QED BY <1>1, <2>1 DEF LinkInv, Shape
<1>8. OnePlace'
  BY <1>1, StayPlaced DEF LinkInv
<1>9. PICK k \in 0..MaxRequests : Progress(c, k)
  BY DEF LinkInv
<1>10. k \in Nat /\ MaxRequests \in Nat
  BY CarbonlinkAssumption
<1>11. Made(c, k) /\ Unread(c, k) /\ Answering(c, k)
  BY <1>9 DEF Progress
<1>12. k <= l
  BY <1>3, <1>11 DEF Made
<1>13. Made(c, k)'
  <2>1. k <= l + 1 /\ l + 1 <= MaxRequests
    BY <1>1, <1>3, <1>4, <1>10, <1>12
  <2>2. \A i \in 1..k : asked'[c][i] = asked[c][i]
    BY <1>3, <1>4, <1>5, <1>6, <1>10, <1>12
  <2>3. Len(asked'[c]) = l + 1
    BY <1>5, <1>6
  <2> QED BY <1>1, <1>11, <2>1, <2>2, <2>3 DEF Made
<1>14. Unread(c, k)'
  <2> SUFFICES ASSUME handlerPC[c] # "closed" PROVE Unread(c, k)'
    BY <1>1 DEF Unread
  <2>1. k + n = l /\ \A i \in 1..n : Parsed[t[i]] = s[k + i]
    BY <1>3, <1>11 DEF Unread
  <2>2. ASSUME NEW i \in 1..(n + 1) PROVE Parsed[wire'[c][i]] = asked'[c][k + i]
    <3>1. CASE i \in 1..n
      <4>1. k + i \in 1..l
        BY <1>4, <1>10, <2>1, <3>1
      <4>2. wire'[c][i] = t[i] /\ asked'[c][k + i] = s[k + i]
        BY <1>5, <1>6, <3>1, <4>1
      <4> QED BY <2>1, <3>1, <4>2
    <3>2. CASE i = n + 1
      <4>1. k + i = l + 1
        BY <1>4, <1>10, <2>1, <3>2
      <4>2. wire'[c][i] = f /\ asked'[c][k + i] = req
        BY <1>5, <1>6, <3>2, <4>1
      <4> QED BY <4>2
    <3> QED BY <1>4, <3>1, <3>2
  <2>3. Len(wire'[c]) = n + 1 /\ Len(asked'[c]) = l + 1 /\ k + (n + 1) = l + 1
    BY <1>4, <1>5, <1>6, <1>10, <2>1
  <2> QED BY <2>2, <2>3 DEF Unread
<1>15. Answering(c, k)'
  <2>1. k + 1 <= l => asked'[c][k + 1] = asked[c][k + 1]
    BY <1>3, <1>4, <1>5, <1>6, <1>10
  <2>2. k + 1 <= l => k + 1 <= Len(asked'[c])
    BY <1>4, <1>5, <1>6, <1>10
  <2> QED BY <1>1, <1>3, <1>11, <2>1, <2>2 DEF Answering
<1>16. Progress(c, k)'
  BY <1>13, <1>14, <1>15 DEF Progress
<1>17. \A d \in Client \ {c} : Untouched(d)
  BY <1>1, <1>5, SameQueries DEF Untouched
<1> QED BY <1>7, <1>8, <1>16, <1>17, OneConnection

\* The connection is closed without a reply.
LEMMA CloseStep ==
    ASSUME LinkInv, NEW c \in Client, ReadFails(c) \/ ReadRubbish(c) \/ WriteFails(c)
    PROVE  LinkInv'
<1>1. /\ handlerPC[c] \in {"read", "write"} /\ handlerPC' = [handlerPC EXCEPT ![c] = "closed"]
      /\ current' = [current EXCEPT ![c] = Nil] /\ packed' = [packed EXCEPT ![c] = Nil]
      /\ wire' = wire \/ (wire[c] # << >> /\ wire' = [wire EXCEPT ![c] = Tail(@)])
      /\ UNCHANGED <<asked, query, queryChan, taken, replies>>
  BY DEF ReadFails, ReadRubbish, WriteFails, Close, clientVars, cacheVars, Empty
<1>2. /\ wire \in [Client -> Seq(Frames)] /\ handlerPC \in [Client -> States]
      /\ current \in [Client -> QueryId \cup {Nil}] /\ packed \in [Client -> Packet \cup {Nil}]
      /\ replies \in [Client -> Seq(Packet)]
  BY DEF LinkInv, Shape
<1>3. wire' \in [Client -> Seq(Frames)] /\ \A d \in Client \ {c} : wire'[d] = wire[d]
  <2>1. CASE wire' = wire
    BY <1>2, <2>1
  <2>2. CASE wire[c] # << >> /\ wire' = [wire EXCEPT ![c] = Tail(@)]
    <3>1. Tail(wire[c]) \in Seq(Frames)
      BY <1>2, <2>2
    <3> QED BY <1>2, <2>2, <3>1
  <2> QED BY <1>1, <2>1, <2>2
<1>4. /\ handlerPC'[c] = "closed"
      /\ \A d \in Client \ {c} : /\ handlerPC'[d] = handlerPC[d] /\ current'[d] = current[d]
                                 /\ packed'[d] = packed[d]
  BY <1>1, <1>2
<1>5. Shape'
  BY <1>1, <1>2, <1>3 DEF LinkInv, Shape, States
<1>6. OnePlace'
  <2>1. \A d \in Client : handlerPC'[d] = "send" => handlerPC[d] = "send" /\ current'[d] = current[d]
    BY <1>4
  <2> QED BY <1>1, <2>1, StayPlaced DEF LinkInv
<1>7. PICK k \in 0..MaxRequests : Progress(c, k)
  BY DEF LinkInv
<1>8. Len(replies[c]) \in Nat
  BY <1>2
<1>9. Progress(c, k)'
  BY <1>1, <1>4, <1>7, <1>8, SameQueries, Closing
<1>10. \A d \in Client \ {c} : Untouched(d)
  BY <1>1, <1>3, <1>4, SameQueries DEF Untouched
<1> QED BY <1>5, <1>6, <1>9, <1>10, OneConnection

\* What the handler reads is the client's next request.
LEMMA NextRequest ==
    ASSUME LinkInv, NEW c \in Client, handlerPC[c] = "read", wire[c] # << >>,
           NEW k \in 0..MaxRequests, Progress(c, k)
    PROVE  /\ k + 1 \in 1..Len(asked[c]) /\ k + 1 \in 0..MaxRequests /\ k + 1 \in 1..MaxRequests
           /\ Parsed[Head(wire[c])] = asked[c][k + 1]
           /\ asked[c][k + 1] \in Request \cup {Nil}
           /\ Tail(wire[c]) \in Seq(Frames)
           /\ (k + 1) + Len(Tail(wire[c])) = Len(asked[c])
           /\ \A i \in 1..Len(Tail(wire[c])) : Parsed[Tail(wire[c])[i]] = asked[c][(k + 1) + i]
<1>1. PICK s, t, l, n : s = asked[c] /\ t = wire[c] /\ l = Len(s) /\ n = Len(t)
  OBVIOUS
<1>2. s \in Seq(Request \cup {Nil}) /\ t \in Seq(Frames) /\ l \in Nat /\ n \in Nat \ {0} /\ t # << >>
  BY <1>1 DEF LinkInv, Shape
<1>3. k \in Nat /\ MaxRequests \in Nat
  BY CarbonlinkAssumption
<1>4. k + n = l /\ l <= MaxRequests /\ \A i \in 1..n : Parsed[t[i]] = s[k + i]
  BY <1>1 DEF Progress, Made, Unread
<1>5. PICK r : r = Tail(t)
  OBVIOUS
<1>6. /\ Head(t) = t[1] /\ r \in Seq(Frames) /\ Len(r) = n - 1
      /\ \A i \in 1..(n - 1) : r[i] = t[i + 1]
  BY <1>1, <1>2, <1>5
<1>7. k + 1 \in 1..l /\ k + 1 \in 0..MaxRequests /\ k + 1 \in 1..MaxRequests /\ (k + 1) + (n - 1) = l
  BY <1>2, <1>3, <1>4
<1>8. Parsed[Head(t)] = s[k + 1]
  <2>1. 1 \in 1..n
    BY <1>2
  <2> QED BY <1>4, <1>6, <2>1
<1>9. ASSUME NEW i \in 1..(n - 1) PROVE Parsed[r[i]] = s[(k + 1) + i]
  <2>1. i + 1 \in 1..n /\ k + (i + 1) = (k + 1) + i
    BY <1>2, <1>3
  <2>2. Parsed[t[i + 1]] = s[k + (i + 1)]
    BY <1>4, <2>1
  <2> QED BY <1>6, <2>1, <2>2
<1>10. s[k + 1] \in Request \cup {Nil}
  BY <1>1, <1>2, <1>7
<1> QED BY <1>1, <1>5, <1>6, <1>7, <1>8, <1>9, <1>10

\* Another type is answered with an error.
LEMMA OtherTypeStep ==
    ASSUME LinkInv, NEW c \in Client, ReadOtherType(c)
    PROVE  LinkInv'
<1>1. PICK k \in 0..MaxRequests : Progress(c, k)
  BY DEF LinkInv
<1>2. PICK req : req = Parsed[Head(wire[c])]
  OBVIOUS
<1>3. /\ handlerPC[c] = "read" /\ wire[c] # << >> /\ req # Nil /\ req.type # "cache-query"
      /\ handlerPC' = [handlerPC EXCEPT ![c] = "closed"]
      /\ current' = [current EXCEPT ![c] = Nil] /\ packed' = [packed EXCEPT ![c] = Nil]
      /\ wire' = [wire EXCEPT ![c] = Tail(@)]
      /\ replies' = [replies EXCEPT ![c] = Append(@, ErrorReply(req.type))]
      /\ UNCHANGED <<asked, query, queryChan, taken>>
  BY <1>2 DEF ReadOtherType, Close, clientVars, cacheVars, Empty
<1>4. /\ wire \in [Client -> Seq(Frames)] /\ handlerPC \in [Client -> States]
      /\ current \in [Client -> QueryId \cup {Nil}] /\ packed \in [Client -> Packet \cup {Nil}]
      /\ replies \in [Client -> Seq(Packet)]
  BY DEF LinkInv, Shape
<1>5. /\ k + 1 \in 1..Len(asked[c]) /\ req = asked[c][k + 1] /\ req \in Request
      /\ Tail(wire[c]) \in Seq(Frames)
  BY <1>1, <1>2, <1>3, NextRequest
<1>6. PICK e, r, n : e = ErrorReply(req.type) /\ r = replies[c] /\ n = Len(r)
  OBVIOUS
<1>7. e \in Packet /\ r \in Seq(Packet) /\ n \in Nat
  <2>1. req.type \in Types
    BY <1>5 DEF Request
  <2>2. ErrorReply(req.type) \in {ErrorReply(t) : t \in Types}
    BY <2>1
  <2>3. e \in Packet
    BY <1>6, <2>2 DEF Packet
  <2> QED BY <1>4, <1>6, <2>3
<1>8. /\ Append(r, e) \in Seq(Packet) /\ Len(Append(r, e)) = n + 1
      /\ Append(r, e)[n + 1] = e /\ \A i \in 1..n : Append(r, e)[i] = r[i]
  BY <1>6, <1>7
<1>9. /\ handlerPC'[c] = "closed" /\ replies'[c] = Append(r, e)
      /\ \A d \in Client \ {c} : /\ handlerPC'[d] = handlerPC[d] /\ current'[d] = current[d]
                                 /\ packed'[d] = packed[d] /\ wire'[d] = wire[d]
                                 /\ replies'[d] = replies[d]
  BY <1>3, <1>4, <1>6
<1>10. Shape'
  <2>1. wire' \in [Client -> Seq(Frames)]
    BY <1>3, <1>4, <1>5
  <2>2. replies' \in [Client -> Seq(Packet)]
    BY <1>3, <1>4, <1>6, <1>8
  <2> QED BY <1>3, <1>4, <2>1, <2>2 DEF LinkInv, Shape, States
<1>11. OnePlace'
  <2>1. \A d \in Client : handlerPC'[d] = "send" => handlerPC[d] = "send" /\ current'[d] = current[d]
    BY <1>9
  <2> QED BY <1>3, <2>1, StayPlaced DEF LinkInv
<1>12. Progress(c, k)'
  <2>1. Made(c, k)'
    BY <1>1, <1>3, SameQueries, MadeKept DEF Progress
  <2>2. Unread(c, k)'
    BY <1>9 DEF Unread
  <2>3. n = k /\ k \in Nat
    BY <1>1, <1>3, <1>6, CarbonlinkAssumption DEF Progress, Answering
  <2>4. \A i \in 1..k : Replied(replies'[c][i], query'[<<c, i>>])
    <3>1. \A i \in 1..k : Replied(r[i], query[<<c, i>>])
      BY <1>1, <1>6, <2>3 DEF Progress, Answering
    <3> QED BY <1>3, <1>8, <1>9, <2>3, <3>1
  <2>5. /\ Len(replies'[c]) = k + 1 /\ replies'[c][k + 1] = ErrorReply(asked'[c][k + 1].type)
        /\ k + 1 <= Len(asked'[c]) /\ asked'[c][k + 1] # Nil
        /\ asked'[c][k + 1].type # "cache-query"
    BY <1>3, <1>5, <1>6, <1>8, <1>9, <2>3
  <2>6. Answering(c, k)'
    BY <1>9, <2>4, <2>5 DEF Answering
  <2> QED BY <2>1, <2>2, <2>6 DEF Progress
<1>13. \A d \in Client \ {c} : Untouched(d)
  BY <1>3, <1>9, SameQueries DEF Untouched
<1> QED BY <1>10, <1>11, <1>12, <1>13, OneConnection

\* A cache-query becomes a query of its own.
LEMMA ReadRequestStep ==
    ASSUME LinkInv, NEW c \in Client, ReadRequest(c)
    PROVE  LinkInv'
<1>1. PICK k \in 0..MaxRequests : Progress(c, k)
  BY DEF LinkInv
<1>2. PICK req, new : req = Parsed[Head(wire[c])] /\ new = <<c, k + 1>>
  OBVIOUS
<1>3. Number(c) = k + 1
  BY <1>1, NextNumber DEF Progress, Made
<1>4. /\ handlerPC[c] = "read" /\ wire[c] # << >> /\ req # Nil /\ req.type = "cache-query"
      /\ handlerPC' = [handlerPC EXCEPT ![c] = "send"]
      /\ current' = [current EXCEPT ![c] = new]
      /\ query' = [query EXCEPT ![new] = [metric |-> req.metric, answer |-> Nil]]
      /\ wire' = [wire EXCEPT ![c] = Tail(@)]
      /\ UNCHANGED <<asked, packed, queryChan, taken, replies>>
  BY <1>2, <1>3 DEF ReadRequest, NewQuery, clientVars, cacheVars, Empty
<1>5. /\ k + 1 \in 1..Len(asked[c]) /\ k + 1 \in 0..MaxRequests /\ k + 1 \in 1..MaxRequests
      /\ req = asked[c][k + 1] /\ req \in Request /\ Tail(wire[c]) \in Seq(Frames)
      /\ (k + 1) + Len(Tail(wire[c])) = Len(asked[c])
      /\ \A i \in 1..Len(Tail(wire[c])) : Parsed[Tail(wire[c])[i]] = asked[c][(k + 1) + i]
  BY <1>1, <1>2, <1>4, NextRequest
<1>6. /\ wire \in [Client -> Seq(Frames)] /\ handlerPC \in [Client -> States]
      /\ current \in [Client -> QueryId \cup {Nil}] /\ query \in [QueryId -> QueryObj \cup {Nil}]
      /\ replies \in [Client -> Seq(Packet)] /\ queryChan \in Seq(QueryId) /\ taken \subseteq QueryId
  BY DEF LinkInv, Shape
<1>7. k \in Nat /\ MaxRequests \in Nat
  BY CarbonlinkAssumption
<1>8. new \in QueryId /\ query[new] = Nil
  <2>1. new \in QueryId
    BY <1>2, <1>5 DEF QueryId
  <2>2. ~(k + 1 <= k)
    BY <1>7
  <2> QED BY <1>1, <1>2, <1>5, <2>1, <2>2 DEF Progress, Made
<1>9. PICK o : o = [metric |-> req.metric, answer |-> Nil]
  OBVIOUS
<1>10. o \in QueryObj /\ o # Nil /\ o.metric = req.metric /\ o.answer = Nil
  <2>1. req.metric \in Metric
    BY <1>5 DEF Request
  <2>2. o \in QueryObj
    BY <1>9, <2>1 DEF QueryObj
  <2> QED BY <1>9, <2>2, NilAssumption
<1>11. query'[new] = o /\ \A q \in QueryId \ {new} : query'[q] = query[q]
  BY <1>4, <1>6, <1>8, <1>9
<1>12. /\ handlerPC'[c] = "send" /\ current'[c] = new /\ wire'[c] = Tail(wire[c])
       /\ \A d \in Client \ {c} : /\ handlerPC'[d] = handlerPC[d] /\ current'[d] = current[d]
                                  /\ wire'[d] = wire[d]
  BY <1>4, <1>6
<1>13. Shape'
  <2>1. wire' \in [Client -> Seq(Frames)]
    BY <1>4, <1>5, <1>6
  <2>2. query' \in [QueryId -> QueryObj \cup {Nil}]
    BY <1>4, <1>6, <1>9, <1>10
  <2>3. current' \in [Client -> QueryId \cup {Nil}] /\ handlerPC' \in [Client -> States]
    BY <1>4, <1>6, <1>8 DEF States
  <2> QED BY <1>4, <1>6, <2>1, <2>2, <2>3 DEF LinkInv, Shape
<1>14. Queued' = Queued /\ Queued \subseteq QueryId
  BY <1>4, <1>6 DEF Queued
<1>15. new \notin Queued \cup taken
  BY <1>8 DEF LinkInv, OnePlace
<1>16. OnePlace'
  <2>1. \A q \in Queued \cup taken : query'[q] # Nil /\ query'[q].answer = Nil
    BY <1>6, <1>11, <1>14, <1>15 DEF LinkInv, OnePlace
  <2>2. ASSUME NEW d \in Client, handlerPC'[d] = "send"
        PROVE  current'[d] \notin Queued \cup taken /\ query'[current'[d]].answer = Nil
    <3>1. CASE d = c
      BY <1>10, <1>11, <1>12, <1>15, <3>1
    <3>2. CASE d # c
      <4>1. handlerPC[d] = "send" /\ current'[d] = current[d]
        BY <1>12, <2>2, <3>2
      <4>2. current[d] \notin Queued \cup taken /\ query[current[d]].answer = Nil
        BY <4>1 DEF LinkInv, OnePlace
      <4>3. PICK n \in 0..MaxRequests : Progress(d, n)
        BY DEF LinkInv
      <4>4. current[d] = <<d, n>> /\ n > 0
        BY <4>1, <4>3 DEF Progress, Answering
      <4>5. current[d] \in QueryId \ {new}
        BY <1>2, <1>7, <3>2, <4>4 DEF QueryId
      <4> QED BY <1>11, <4>1, <4>2, <4>5
    <3> QED BY <3>1, <3>2
  <2> QED BY <1>4, <1>14, <2>1, <2>2 DEF LinkInv, OnePlace
<1>17. \A i \in 1..MaxRequests : i # k + 1 => query'[<<c, i>>] = query[<<c, i>>]
  <2>1. \A i \in 1..MaxRequests : i # k + 1 => <<c, i>> \in QueryId \ {new}
    BY <1>2 DEF QueryId
  <2> QED BY <1>11, <2>1
<1>18. Made(c, k + 1)'
  <2>1. ASSUME NEW i \in 1..MaxRequests PROVE query'[<<c, i>>] # Nil <=> i <= k + 1
    <3>1. CASE i = k + 1
      BY <1>2, <1>7, <1>10, <1>11, <3>1
    <3>2. CASE i # k + 1
      <4>1. query[<<c, i>>] # Nil <=> i <= k
        BY <1>1 DEF Progress, Made
      <4>2. i <= k <=> i <= k + 1
        BY <1>7, <3>2
      <4> QED BY <1>17, <3>2, <4>1, <4>2
    <3> QED BY <3>1, <3>2
  <2>2. ASSUME NEW i \in 1..(k + 1)
        PROVE  asked[c][i] = [type |-> "cache-query", metric |-> query'[<<c, i>>].metric]
    <3>1. CASE i = k + 1
      <4>1. query'[<<c, i>>] = o
        BY <1>2, <1>11, <3>1
      <4>2. req = [type |-> "cache-query", metric |-> req.metric]
        BY <1>4, <1>5 DEF Request
      <4> QED BY <1>5, <1>10, <3>1, <4>1, <4>2
    <3>2. CASE i # k + 1
      <4>1. i \in 1..k /\ i \in 1..MaxRequests
        BY <1>5, <1>7, <3>2
      <4>2. asked[c][i] = [type |-> "cache-query", metric |-> query[<<c, i>>].metric]
        BY <1>1, <4>1 DEF Progress, Made
      <4> QED BY <1>17, <3>2, <4>1, <4>2
    <3> QED BY <3>1, <3>2
  <2>3. k + 1 <= Len(asked[c]) /\ Len(asked[c]) <= MaxRequests
    BY <1>1, <1>5 DEF Progress, Made
  <2> QED BY <1>4, <2>1, <2>2, <2>3 DEF Made
<1>19. Unread(c, k + 1)'
  <2>1. PICK t, l : t = Tail(wire[c]) /\ l = k + 1
    OBVIOUS
  <2>2. l + Len(t) = Len(asked[c]) /\ \A i \in 1..Len(t) : Parsed[t[i]] = asked[c][l + i]
    BY <1>5, <2>1
  <2>3. wire'[c] = t /\ asked'[c] = asked[c]
    BY <1>4, <1>12, <2>1
  <2>4. Unread(c, l)'
    BY <2>2, <2>3 DEF Unread
  <2> QED BY <2>1, <2>4
<1>20. Answering(c, k + 1)'
  <2>1. Len(replies[c]) = k /\ \A n \in 1..k : Replied(replies[c][n], query[<<c, n>>])
    BY <1>1, <1>4, <1>7 DEF Progress, Answering
  <2>2. ASSUME NEW n \in 1..(k + 1), n <= Len(replies[c])
        PROVE  Replied(replies[c][n], query'[<<c, n>>])
    <3>1. n \in 1..k /\ n \in 1..MaxRequests /\ n # k + 1
      BY <1>5, <1>7, <2>1, <2>2
    <3> QED BY <1>17, <2>1, <3>1
  <2>3. k + 1 > 0 /\ Len(replies[c]) = (k + 1) - 1
    BY <1>7, <2>1
  <2> QED BY <1>2, <1>4, <1>12, <2>2, <2>3 DEF Answering
<1>21. Progress(c, k + 1)'
  BY <1>18, <1>19, <1>20 DEF Progress
<1>22. \A d \in Client \ {c} : Untouched(d)
  <2>1. ASSUME NEW d \in Client \ {c} PROVE \A i \in 1..MaxRequests : query'[<<d, i>>] = query[<<d, i>>]
    <3>1. \A i \in 1..MaxRequests : <<d, i>> \in QueryId \ {new}
      BY <1>2 DEF QueryId
    <3> QED BY <1>11, <3>1
  <2>2. \A d \in Client \ {c} : Kept(d)
    BY <2>1 DEF Kept
  <2> QED BY <1>4, <1>12, <2>2 DEF Untouched
<1> QED BY <1>5, <1>13, <1>16, <1>21, <1>22, OneConnection

\* The query is put into the cache's channel.
LEMMA SendQueryStep ==
    ASSUME LinkInv, NEW c \in Client, SendQuery(c)
    PROVE  LinkInv'
<1>1. /\ handlerPC[c] = "send" /\ handlerPC' = [handlerPC EXCEPT ![c] = "wait"]
      /\ queryChan' = Append(queryChan, current[c])
      /\ UNCHANGED <<asked, wire, current, packed, query, taken, replies>>
  BY DEF SendQuery, clientVars
<1>2. /\ handlerPC \in [Client -> States] /\ queryChan \in Seq(QueryId) /\ taken \subseteq QueryId
  BY DEF LinkInv, Shape
<1>3. PICK k \in 0..MaxRequests : Progress(c, k)
  BY DEF LinkInv
<1>4. k > 0 /\ k \in 1..MaxRequests /\ current[c] = <<c, k>>
  BY <1>1, <1>3, CarbonlinkAssumption DEF Progress, Answering
<1>5. current[c] \in QueryId /\ query[current[c]] # Nil
  <2>1. <<c, k>> \in QueryId
    BY <1>4 DEF QueryId
  <2>2. k <= k
    BY <1>4, CarbonlinkAssumption
  <2> QED BY <1>3, <1>4, <2>1, <2>2 DEF Progress, Made
<1>6. PICK x, s, t, n : x = current[c] /\ s = queryChan /\ t = Append(s, x) /\ n = Len(s)
  OBVIOUS
<1>7. /\ n \in Nat /\ t \in Seq(QueryId) /\ Len(t) = n + 1 /\ t[n + 1] = x
      /\ \A i \in 1..n : t[i] = s[i]
  BY <1>2, <1>5, <1>6
<1>8. x \notin Queued \cup taken /\ query[x].answer = Nil
  BY <1>1, <1>6 DEF LinkInv, OnePlace
<1>9. Queued' = Queued \cup {x}
  <2>1. Queued = {s[i] : i \in 1..n} /\ Queued' = {t[i] : i \in 1..(n + 1)}
    BY <1>1, <1>6, <1>7 DEF Queued
  <2>2. 1..(n + 1) = (1..n) \cup {n + 1}
    BY <1>7
  <2> QED BY <1>7, <2>1, <2>2
<1>10. handlerPC'[c] = "wait" /\ \A d \in Client \ {c} : handlerPC'[d] = handlerPC[d]
  BY <1>1, <1>2
<1>11. Shape'
  BY <1>1, <1>2, <1>6, <1>7 DEF LinkInv, Shape, States
<1>12. OnePlace'
  <2>1. ASSUME NEW i \in 1..(n + 1), NEW j \in 1..(n + 1), t[i] = t[j] PROVE i = j
    <3>1. \A l \in 1..n : s[l] # x
      BY <1>6, <1>8 DEF Queued
    <3>2. \A l, m \in 1..n : s[l] = s[m] => l = m
      BY <1>6 DEF LinkInv, OnePlace
    <3>3. (i \in 1..n \/ i = n + 1) /\ (j \in 1..n \/ j = n + 1)
      BY <1>7
    <3> QED BY <1>7, <2>1, <3>1, <3>2, <3>3
  <2>2. (Queued \cup {x}) \cap taken = {}
    BY <1>8 DEF LinkInv, OnePlace
  <2>3. \A q \in Queued \cup {x} \cup taken : query[q] # Nil /\ query[q].answer = Nil
    BY <1>5, <1>6, <1>8 DEF LinkInv, OnePlace
  <2>4. ASSUME NEW d \in Client, handlerPC'[d] = "send"
        PROVE  current[d] \notin Queued \cup {x} \cup taken /\ query[current[d]].answer = Nil
    <3>1. d # c /\ handlerPC[d] = "send"
      BY <1>10, <2>4
    <3>2. current[d] \notin Queued \cup taken /\ query[current[d]].answer = Nil
      BY <3>1 DEF LinkInv, OnePlace
    <3>3. PICK l \in 0..MaxRequests : Progress(d, l)
      BY DEF LinkInv
    <3>4. current[d] = <<d, l>>
      BY <3>1, <3>3 DEF Progress, Answering
    <3>5. current[d] # x
      BY <1>4, <1>6, <3>1, <3>4
    <3> QED BY <3>2, <3>5
  <2>5. queryChan' = t /\ Len(queryChan') = n + 1
    BY <1>1, <1>6, <1>7
  <2> QED BY <1>1, <1>9, <2>1, <2>2, <2>3, <2>4, <2>5 DEF OnePlace
<1>13. Progress(c, k)'
  <2>1. Made(c, k)'
    BY <1>1, <1>3, SameQueries, MadeKept DEF Progress
  <2>2. Unread(c, k)'
    BY <1>1, <1>3, <1>10 DEF Progress, Unread
  <2>3. Answering(c, k)'
    BY <1>1, <1>3, <1>10 DEF Progress, Answering
  <2> QED BY <2>1, <2>2, <2>3 DEF Progress
<1>14. \A d \in Client \ {c} : Untouched(d)
  BY <1>1, <1>10, SameQueries DEF Untouched
<1> QED BY <1>11, <1>12, <1>13, <1>14, OneConnection

\* The handler has its answer, or gives up.
LEMMA WaitStep ==
    ASSUME LinkInv, NEW c \in Client, WaitAnswer(c) \/ WaitTimeout(c)
    PROVE  LinkInv'
<1>1. PICK k \in 0..MaxRequests : Progress(c, k)
  BY DEF LinkInv
<1>2. handlerPC[c] = "wait"
  BY DEF WaitAnswer, WaitTimeout
<1>3. k > 0 /\ k \in 1..MaxRequests /\ current[c] = <<c, k>> /\ <<c, k>> \in QueryId
      /\ query[<<c, k>>] # Nil
  <2>1. k > 0 /\ k \in 1..MaxRequests /\ current[c] = <<c, k>> /\ k <= k
    BY <1>1, <1>2, CarbonlinkAssumption DEF Progress, Answering
  <2> QED BY <1>1, <2>1 DEF Progress, Made, QueryId
<1>4. PICK r : packed' = [packed EXCEPT ![c] = r] /\ r \in Packet /\ Replied(r, query[<<c, k>>])
  <2>1. CASE WaitAnswer(c)
    <3>1. PICK a : a = query[<<c, k>>].answer
      OBVIOUS
    <3>2. a # Nil /\ packed' = [packed EXCEPT ![c] = packReply(a)]
      BY <1>3, <2>1, <3>1 DEF WaitAnswer
    <3>3. a \in {Nil} \cup Answer
      BY <1>3, <3>1 DEF LinkInv, Shape, QueryObj
    <3>4. packReply(a) \in Packet
      BY <3>3 DEF Packet
    <3> QED BY <3>1, <3>2, <3>4 DEF Replied
  <2>2. CASE WaitTimeout(c)
    <3>1. packReply(Nil) \in Packet
      BY DEF Packet
    <3> QED BY <2>2, <3>1 DEF WaitTimeout, Replied
  <2> QED BY <2>1, <2>2
<1>5. /\ handlerPC' = [handlerPC EXCEPT ![c] = "write"]
      /\ current' = current \/ current' = [current EXCEPT ![c] = Nil]
      /\ UNCHANGED <<asked, wire, query, queryChan, taken, replies>>
  BY DEF WaitAnswer, WaitTimeout, clientVars, cacheVars
<1>6. /\ handlerPC \in [Client -> States] /\ packed \in [Client -> Packet \cup {Nil}]
      /\ current \in [Client -> QueryId \cup {Nil}]
  BY DEF LinkInv, Shape
<1>7. /\ handlerPC'[c] = "write" /\ packed'[c] = r
      /\ \A d \in Client \ {c} : /\ handlerPC'[d] = handlerPC[d] /\ current'[d] = current[d]
                                 /\ packed'[d] = packed[d]
  BY <1>4, <1>5, <1>6
<1>8. Shape'
  <2>1. current' \in [Client -> QueryId \cup {Nil}]
    BY <1>5, <1>6
  <2> QED BY <1>4, <1>5, <1>6, <2>1 DEF LinkInv, Shape, States
<1>9. OnePlace'
  <2>1. \A d \in Client : handlerPC'[d] = "send" => handlerPC[d] = "send" /\ current'[d] = current[d]
    BY <1>7
  <2> QED BY <1>5, <2>1, StayPlaced DEF LinkInv
<1>10. Progress(c, k)'
  <2>1. Made(c, k)'
    BY <1>1, <1>5, SameQueries, MadeKept DEF Progress
  <2>2. Unread(c, k)'
    BY <1>1, <1>2, <1>5 DEF Progress, Unread
  <2>3. Answering(c, k)'
    BY <1>1, <1>2, <1>4, <1>5, <1>7 DEF Progress, Answering
  <2> QED BY <2>1, <2>2, <2>3 DEF Progress
<1>11. \A d \in Client \ {c} : Untouched(d)
  BY <1>5, <1>7, SameQueries DEF Untouched
<1> QED BY <1>8, <1>9, <1>10, <1>11, OneConnection

LEMMA WriteReplyStep ==
    ASSUME LinkInv, NEW c \in Client, WriteReply(c)
    PROVE  LinkInv'
<1>1. PICK k \in 0..MaxRequests : Progress(c, k)
  BY DEF LinkInv
<1>2. /\ handlerPC[c] = "write" /\ handlerPC' = [handlerPC EXCEPT ![c] = "read"]
      /\ replies' = [replies EXCEPT ![c] = Append(@, packed[c])]
      /\ packed' = [packed EXCEPT ![c] = Nil] /\ current' = [current EXCEPT ![c] = Nil]
      /\ UNCHANGED <<asked, wire, query, queryChan, taken>>
  BY DEF WriteReply, clientVars, cacheVars
<1>3. /\ handlerPC \in [Client -> States] /\ packed \in [Client -> Packet \cup {Nil}]
      /\ current \in [Client -> QueryId \cup {Nil}] /\ replies \in [Client -> Seq(Packet)]
  BY DEF LinkInv, Shape
<1>4. PICK r, s, n : r = packed[c] /\ s = replies[c] /\ n = Len(s)
  OBVIOUS
<1>5. n \in Nat /\ k \in Nat /\ k > 0 /\ n = k - 1 /\ Replied(r, query[<<c, k>>])
  BY <1>1, <1>2, <1>3, <1>4, CarbonlinkAssumption DEF Progress, Answering
<1>6. r \in Packet
  <2>1. r = packReply(Nil) \/ r = packReply(query[<<c, k>>].answer)
    BY <1>5 DEF Replied
  <2>2. k \in 1..MaxRequests /\ <<c, k>> \in QueryId /\ k <= k
    BY <1>5, CarbonlinkAssumption DEF QueryId
  <2>3. query[<<c, k>>] \in QueryObj
    BY <1>1, <2>2 DEF LinkInv, Shape, Progress, Made
  <2>4. query[<<c, k>>].answer \in {Nil} \cup Answer
    BY <2>3 DEF QueryObj
  <2>5. packReply(Nil) \in Packet /\ packReply(query[<<c, k>>].answer) \in Packet
    BY <2>4 DEF Packet
  <2> QED BY <2>1, <2>5
<1>7. /\ Append(s, r) \in Seq(Packet) /\ Len(Append(s, r)) = n + 1
      /\ Append(s, r)[n + 1] = r /\ \A i \in 1..n : Append(s, r)[i] = s[i]
  BY <1>3, <1>4, <1>6
<1>8. /\ handlerPC'[c] = "read" /\ replies'[c] = Append(s, r)
      /\ \A d \in Client \ {c} : /\ handlerPC'[d] = handlerPC[d] /\ current'[d] = current[d]
                                 /\ packed'[d] = packed[d] /\ replies'[d] = replies[d]
  BY <1>2, <1>3, <1>4
<1>9. Shape'
  <2>1. replies' \in [Client -> Seq(Packet)]
    BY <1>2, <1>3, <1>4, <1>7
  <2> QED BY <1>2, <1>3, <2>1 DEF LinkInv, Shape, States
<1>10. OnePlace'
  <2>1. \A d \in Client : handlerPC'[d] = "send" => handlerPC[d] = "send" /\ current'[d] = current[d]
    BY <1>8
  <2> QED BY <1>2, <2>1, StayPlaced DEF LinkInv
<1>11. Progress(c, k)'
  <2>1. Made(c, k)'
    BY <1>1, <1>2, SameQueries, MadeKept DEF Progress
  <2>2. Unread(c, k)'
    BY <1>1, <1>2 DEF Progress, Unread
  <2>3. ASSUME NEW i \in 1..k PROVE Replied(replies'[c][i], query'[<<c, i>>])
    <3>1. CASE i = k
      <4>1. i = n + 1
        BY <1>5, <3>1
      <4> QED BY <1>2, <1>5, <1>7, <1>8, <3>1, <4>1
    <3>2. CASE i # k
      <4>1. i \in 1..n
        BY <1>5, <3>2
      <4>2. i <= Len(replies[c])
        BY <1>4, <1>5, <4>1
      <4>3. Replied(s[i], query[<<c, i>>])
        BY <1>1, <1>4, <4>2 DEF Progress, Answering
      <4> QED BY <1>2, <1>7, <1>8, <4>1, <4>3
    <3> QED BY <3>1, <3>2
  <2>4. Len(replies'[c]) = k
    BY <1>5, <1>7, <1>8
  <2>5. Answering(c, k)'
    BY <1>8, <2>3, <2>4 DEF Answering
  <2> QED BY <2>1, <2>2, <2>5 DEF Progress
<1>12. \A d \in Client \ {c} : Untouched(d)
  BY <1>2, <1>8, SameQueries DEF Untouched
<1> QED BY <1>9, <1>10, <1>11, <1>12, OneConnection

(***************************************************************************)
(* The theorems.                                                           *)
(***************************************************************************)
LEMMA InitLink == Init => LinkInv
<1> SUFFICES ASSUME Init PROVE LinkInv
  OBVIOUS
<1>1. Shape
  BY DEF Init, Shape, States, Empty
<1>2. Len(queryChan) = 0 /\ taken = {} /\ \A c \in Client : handlerPC[c] = "none"
  BY DEF Init, Empty
<1>3. Queued = {}
  BY <1>2 DEF Queued
<1>4. OnePlace
  BY <1>2, <1>3 DEF OnePlace
<1>5. ASSUME NEW c \in Client PROVE Progress(c, 0)
  <2>1. Len(asked[c]) = 0 /\ Len(wire[c]) = 0 /\ Len(replies[c]) = 0 /\ handlerPC[c] = "none"
    BY DEF Init, Empty
  <2>2. \A i \in 1..MaxRequests : query[<<c, i>>] = Nil
    BY DEF Init, QueryId
  <2>3. MaxRequests \in Nat
    BY CarbonlinkAssumption
  <2>4. Made(c, 0)
    BY <2>1, <2>2, <2>3 DEF Made
  <2>5. Unread(c, 0)
    BY <2>1 DEF Unread
  <2>6. Answering(c, 0)
    BY <2>1 DEF Answering
  <2> QED BY <2>4, <2>5, <2>6 DEF Progress
<1>6. 0 \in 0..MaxRequests
  BY CarbonlinkAssumption
<1> QED BY <1>1, <1>4, <1>5, <1>6 DEF LinkInv

LEMMA LinkStep == LinkInv /\ [Next]_vars => LinkInv'
<1> SUFFICES ASSUME LinkInv, [Next]_vars PROVE LinkInv'
  OBVIOUS
<1>1. CASE UNCHANGED vars
  BY <1>1, QuietLinkStep DEF vars, clientVars, cacheVars
<1>2. ASSUME NEW c \in Client, ClientClose(c) PROVE LinkInv'
  BY <1>2, QuietLinkStep DEF ClientClose, cacheVars
<1>3. ASSUME NEW c \in Client, ClientSend(c, Nil, Rubbish) PROVE LinkInv'
  BY <1>3, FrameRead, ClientSendStep
<1>4. ASSUME NEW c \in Client, NEW req \in Request, NEW s \in Styles,
             ClientSend(c, req, Encode(req, s))
      PROVE  LinkInv'
  <2>1. PICK f : f = Encode(req, s)
    OBVIOUS
  <2>2. f \in Frames /\ Parsed[f] = req
    BY <2>1, FrameRead
  <2> QED BY <1>4, <2>1, <2>2, ClientSendStep
<1>5. CASE Stop \/ CloseSocket \/ AcceptEnds \/ StopEnds \/ CacheStop
  BY <1>5, QuietLinkStep DEF Stop, CloseSocket, AcceptEnds, StopEnds, CacheStop, clientVars, cacheVars
<1>6. ASSUME NEW c \in Client, Accept(c) PROVE LinkInv'
  BY <1>6, AcceptStep
<1>7. CASE CacheTake
  BY <1>7, CacheTakeStep
<1>8. ASSUME NEW q \in QueryId, NEW a \in Answers, CacheAnswer(q, a) PROVE LinkInv'
  BY <1>8, CacheAnswerStep
<1>9. ASSUME NEW c \in Client, Handler(c) PROVE LinkInv'
  BY <1>9, CloseStep, ReadRequestStep, OtherTypeStep, SendQueryStep, WaitStep, WriteReplyStep
     DEF Handler
<1>10. CASE Clients
  BY <1>2, <1>3, <1>4, <1>10 DEF Clients
<1>11. CASE Listener
  BY <1>5, <1>6, <1>11 DEF Listener
<1>12. CASE CacheSide
  BY <1>5, <1>7, <1>8, <1>12 DEF CacheSide
<1> QED BY <1>1, <1>5, <1>9, <1>10, <1>11, <1>12 DEF Next

\* LinkInv holds however many connections, requests and styles there are, and
\* however late the cache answers.
THEOREM LinkInvariance == Spec => []LinkInv
BY InitLink, LinkStep, PTL DEF Spec

\* The n-th query of a connection is for the metric of its n-th request, whatever
\* the style of the client's pickles.
THEOREM QueriesMeant == Spec => []QueriesAsAsked
<1>1. LinkInv => QueriesAsAsked
  <2> SUFFICES ASSUME LinkInv, NEW q \in QueryId, query[q] # Nil
               PROVE  /\ q[2] <= Len(asked[q[1]])
                      /\ asked[q[1]][q[2]] = [type |-> "cache-query", metric |-> query[q].metric]
    BY DEF QueriesAsAsked
  <2>1. PICK c \in Client, i \in 1..MaxRequests : q = <<c, i>>
    BY DEF QueryId
  <2>2. PICK k \in 0..MaxRequests : Made(c, k)
    BY DEF LinkInv, Progress
  <2>3. i \in 1..k /\ i <= k /\ k <= Len(asked[c])
    BY <2>1, <2>2, CarbonlinkAssumption DEF Made
  <2>4. i <= Len(asked[c])
    <3>1. Len(asked[c]) \in Nat
      BY DEF LinkInv, Shape
    <3> QED BY <2>3, <3>1, CarbonlinkAssumption
  <2>5. asked[c][i] = [type |-> "cache-query", metric |-> query[q].metric]
    BY <2>1, <2>2, <2>3 DEF Made
  <2> QED BY <2>1, <2>4, <2>5
<1> QED BY <1>1, LinkInvariance, PTL

\* The n-th reply of a connection answers its n-th request: no answer that is
\* late is given to another one.
THEOREM NoLateReply == Spec => []RepliesInTurn
<1>1. LinkInv => RepliesInTurn
  <2> SUFFICES ASSUME LinkInv, NEW c \in Client, NEW n \in DOMAIN replies[c]
               PROVE  /\ n <= Len(asked[c]) /\ asked[c][n] # Nil
                      /\ IF asked[c][n].type # "cache-query"
                         THEN /\ replies[c][n] = ErrorReply(asked[c][n].type)
                              /\ n = Len(replies[c]) /\ handlerPC[c] = "closed"
                         ELSE \/ replies[c][n] = packReply(Nil)
                              \/ /\ query[<<c, n>>] # Nil /\ query[<<c, n>>].answer # Nil
                                 /\ replies[c][n] = packReply(query[<<c, n>>].answer)
    BY DEF RepliesInTurn
  <2>1. PICK k \in 0..MaxRequests : Made(c, k) /\ Answering(c, k)
    BY DEF LinkInv, Progress
  <2>2. PICK l, r : l = Len(asked[c]) /\ r = Len(replies[c])
    OBVIOUS
  <2>3. l \in Nat /\ r \in Nat /\ n \in 1..r /\ k \in Nat /\ MaxRequests \in Nat
    BY <2>2, CarbonlinkAssumption DEF LinkInv, Shape
  <2>4. k <= l /\ l <= MaxRequests
    BY <2>1, <2>2 DEF Made
  <2>5. CASE n <= k
    <3>1. n \in 1..k /\ n \in 1..MaxRequests /\ n <= l
      BY <2>3, <2>4, <2>5
    <3>2. /\ asked[c][n] = [type |-> "cache-query", metric |-> query[<<c, n>>].metric]
          /\ query[<<c, n>>] # Nil
      BY <2>1, <2>5, <3>1 DEF Made
    <3>3. asked[c][n] # Nil /\ asked[c][n].type = "cache-query"
      <4>1. <<c, n>> \in QueryId
        BY <3>1 DEF QueryId
      <4>2. query[<<c, n>>].metric \in Metric
        BY <3>2, <4>1 DEF LinkInv, Shape, QueryObj
      <4>3. [type |-> "cache-query", metric |-> query[<<c, n>>].metric] \in Request
        BY <4>2 DEF Request, Types
      <4> QED BY <3>2, <4>3, NilAssumption
    <3>4. n <= Len(replies[c])
      BY <2>2, <2>3
    <3>5. Replied(replies[c][n], query[<<c, n>>])
      BY <2>1, <3>1, <3>4 DEF Answering
    <3> QED BY <2>2, <3>1, <3>2, <3>3, <3>5 DEF Replied
  <2>6. CASE ~(n <= k)
    <3>1. ~(r <= k) /\ r # k - 1 /\ r # k
      BY <2>3, <2>6
    <3>2. handlerPC[c] = "closed"
      <4>1. handlerPC[c] \in States
        BY DEF LinkInv, Shape
      <4> QED BY <2>1, <2>2, <3>1, <4>1 DEF Answering, States
    <3>3. /\ r = k + 1 /\ k + 1 <= l /\ asked[c][k + 1] # Nil
          /\ asked[c][k + 1].type # "cache-query"
          /\ replies[c][k + 1] = ErrorReply(asked[c][k + 1].type)
      BY <2>1, <2>2, <3>1, <3>2 DEF Answering
    <3>4. n = k + 1
      BY <2>3, <2>6, <3>3
    <3> QED BY <2>2, <3>2, <3>3, <3>4
  <2> QED BY <2>5, <2>6
<1> QED BY <1>1, LinkInvariance, PTL

\* Whatever the cache's delays, the timeouts and the requests that a client sends
\* ahead, every connection's requests are queried for and answered in turn.
THEOREM ServedInTurn == Spec => []RequestsInTurn
<1>1. QueriesAsAsked /\ RepliesInTurn => RequestsInTurn
  BY DEF RequestsInTurn
<1> QED BY <1>1, QueriesMeant, NoLateReply, PTL

=============================================================================
