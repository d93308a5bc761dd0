----------------------------- MODULE MCFileRouting -----------------------------
EXTENDS FileRouting

CONSTANTS E1, E2, c1, c2

Letters == "a" :> "a" @@ "A" :> "a" @@ "b" :> "b" @@ "x" :> "x" @@ "y" :> "y"
           @@ "." :> "." @@ "_" :> "_" @@ "%" :> "%"
Digits == "0" :> 0 @@ "1" :> 1 @@ "2" :> 2 @@ "3" :> 3
CaseOf == Letters @@ [d \in DOMAIN Digits |-> d]

x == <<"x">>
y == <<"y">>

Row(text, operator, ext, columns, label) ==
  [named |-> <<[text |-> <<>>, operator |-> "EQUALS"], [text |-> text, operator |-> operator]>>,
   plain |-> <<>>, operator |-> "", ext |-> ext, columns |-> columns, label |-> label]

(* Step 4's rows: containing, longer, of either case and exchange, of every  *)
(* operator, with the documented spelling, blank, without extension, absent. *)
Short == Row(<<"a">>, "CONTAINS", x, 2, {E1})
Twin == Row(<<"A">>, "", y, None, {E1, E2})
Other == Row(<<"b">>, "CONTAINS", x, 3, {E2})
Long == Row(<<"a", "_">>, "LIKE", x, 2, {E1})
Starts == Row(<<"a", "b">>, "STARTSWITH", x, None, {E2})
Ends == Row(<<"b", "a">>, "ENDSWITH", y, 1, {E1})
Same == Row(<<"a", "b">>, "EQUALS", x, None, {})
Plain == [Row(<<>>, "", x, None, {E1}) EXCEPT !.plain = <<"b">>, !.operator = "EQUALS"]
Blank == Row(<<>>, "CONTAINS", x, 2, {E2})
NoExt == Row(<<"a">>, "CONTAINS", <<>>, None, {E1})

Expect(pattern, basis, today, last) ==
  [pattern |-> pattern, basis |-> basis, today |-> today, last |-> last]
Open == Expect(<<"%", "%">>, "T", TRUE, <<"1", "2", "1">>)
Fragment == Expect(<<"%", "a", "_", "%">>, "T-1", TRUE, <<"2", "2", "1">>)
Concrete == Expect(<<"a", ".", "x">>, "T-1", TRUE, <<"3", "2", "0">>)
OtherDay == Expect(<<"%", "b", "%">>, "T-1", FALSE, <<"1", "2", "1">>)

Kind ==
  {[row |-> Short, answer |-> Fragment], [row |-> Twin, answer |-> Concrete],
   [row |-> Other, answer |-> OtherDay], [row |-> Long, answer |-> Fragment],
   [row |-> Starts, answer |-> Open], [row |-> Ends, answer |-> Open],
   [row |-> Same, answer |-> Concrete], [row |-> Plain, answer |-> Open],
   [row |-> Blank, answer |-> Open], [row |-> Blank, answer |-> Fragment],
   [row |-> Blank, answer |-> Concrete], [row |-> NoExt, answer |-> Open],
   [row |-> None, answer |-> Open]}

SlotOf(i, k) == [id |-> i, row |-> k.row, answer |-> k.answer]
Step0 == SlotOf(0, [row |-> Short, answer |-> Open])

(* Two slots, one of them listed twice, and a step that expects no file.     *)
Tables ==
  {<<Step0, SlotOf(1, k), SlotOf(2, l), SlotOf(1, k)>> : k \in Kind, l \in Kind}

(* Per delimiter the widths of the first two data lines.                     *)
Comma(first, second) == "," :> <<first, second>> @@ "|" :> <<1, 1>>
Pipe(first, second) == "," :> <<1, 1>> @@ "|" :> <<first, second>>
NoLines == "," :> <<>> @@ "|" :> <<>>

FileOf(stem, ext, exchange, widths) ==
  [stem |-> stem, ext |-> ext, exchange |-> exchange, widths |-> widths]
Files ==
  {FileOf(<<"a", "b">>, x, E1, Comma(2, 3)), FileOf(<<"A", "b">>, x, E2, None),
   FileOf(<<"a">>, y, E1, Pipe(3, 2)), FileOf(<<"b", "a">>, <<>>, E2, Pipe(1, 1)),
   FileOf(<<"a", "b">>, y, E2, Comma(3, 2)), FileOf(<<"b">>, x, E1, NoLines),
   FileOf(<<"x">>, x, E1, Pipe(2, 3)), FileOf(<<"a", "_">>, x, None, Comma(1, 3)),
   FileOf(<<"a", "_", "3", "2", "1">>, x, E1, None),
   FileOf(<<"a", "_", "1", "2", "1">>, x, E1, None),
   FileOf(<<"a", "_", "3", "1">>, x, E2, Comma(2, 2)),
   FileOf(<<"a", "1", "1", "_", "0", "1", "2">>, x, E2, None),
   FileOf(<<"a", "_", "0", "3", "1", "_", "3", "1">>, x, E1, None)}

PostSlots == {SlotOf(1, k) : k \in {k \in Kind : k.row \in {Short, Same, Blank, NoExt, None}}}
PostFiles == {FileOf(<<"a", "b">>, x, None, None), FileOf(<<"b">>, y, None, None)}
=============================================================================
