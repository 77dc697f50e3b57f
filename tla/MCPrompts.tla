----------------------------- MODULE MCPrompts -----------------------------
(* TLC instance of Prompts: two codes, of which 2 is the stronger and has the *)
(* effects, and requests of every kind, with the few and the awkward values.  *)
(* Only the idle command, which is the turn player's, is asked of both seats: *)
(* the player sits at either, so seat 0 is the opponent's as often.           *)
EXTENDS Prompts
MCAtk == [c \in Codes |-> c]
MCCard(code, owner) == [code |-> code, owner |-> owner]
MCLists(summon, special, set, effects) ==
    [t \in 0..5 |-> CASE t = 0 -> summon [] t = 1 -> special [] t = 4 -> set
                      [] t = 5 -> effects [] OTHER -> <<>>]
MCNothing == MCLists(<<>>, <<>>, <<>>, <<>>)
MCIdle(s) ==
    {[kind |-> "idle", seat |-> s, lists |-> l[1], phases |-> l[2]] :
        l \in {<<MCLists(<<1, 2>>, <<2>>, <<>>, <<2>>), {6, 7}>>, <<MCNothing, {6, 7}>>,
               <<MCLists(<<>>, <<>>, <<1>>, <<>>), {6}>>}}
MCAsked ==
    LET MCK(k) == [kind |-> k, seat |-> 0]
        Pairs == [cards |-> <<MCCard(1, 0), MCCard(2, 1)>>]
    IN  {MCK("yesno"), MCK("option") @@ [n |-> 2], MCK("effectyn") @@ [code |-> 2]}
        \cup {MCK("number") @@ [n |-> n] : n \in {1, 2}}
        \cup {MCK("battle") @@ [lists |-> <<w[1]>> @@ (0 :> <<>>), direct |-> w[2], phases |-> w[3]] :
                w \in {<<<<1, 2>>, {}, {3}>>, <<<<1, 2>>, {1}, {2, 3}>>,
                       <<<<>>, {}, {2, 3}>>, <<<<>>, {}, {3}>>}}
        \cup {MCK("chain") @@ [forced |-> f[1], cards |-> f[2]] :
                f \in {<<TRUE, <<MCCard(2, 0)>>>>, <<FALSE, <<MCCard(2, 0)>>>>, <<FALSE, <<>>>>}}
        \cup {MCK(k[1]) @@ [min |-> k[2], max |-> k[3], board |-> {1}] @@ Pairs :
                k \in {<<"card", 1, 1>>, <<"card", 1, 2>>, <<"tribute", 1, 1>>, <<"tribute", 2, 2>>}}
        \cup {MCK("unselect") @@ [finishable |-> f, cancelable |-> FALSE, board |-> {0}] @@ Pairs :
                f \in BOOLEAN}
        \cup {MCK("place") @@ [count |-> n[1], taken |-> n[2]] :
                n \in {<<1, 1..31>>, <<1, 0..30>>, <<2, (0..31) \ {3, 24}>>}}
        \cup {MCK("disfield") @@ [count |-> 1, taken |-> (0..31) \ {20, 9}]}
        \cup {MCK("position") @@ [mask |-> m, code |-> 2] : m \in {{1, 4}, {2, 8}}}
        \cup {MCK("sort") @@ [n |-> n] : n \in {2, 16}}
        \cup {MCK("counter") @@ [count |-> 3, avail |-> <<2, 0, 2>>],
              MCK("announce") @@ [count |-> 2, avail |-> {0, 3, 5}],
              MCK("declare") @@ [legal |-> {2}]}
        \cup {MCK("sum") @@ m :
                m \in {[exact |-> TRUE, acc |-> 7, min |-> 1, max |-> 2, must |-> <<<<2, 0>>>>,
                        opt |-> <<<<4, 0>>, <<1, 5>>, <<2, 0>>>>],
                       [exact |-> FALSE, acc |-> 5, min |-> 1, max |-> 0, must |-> <<>>,
                        opt |-> <<<<2, 0>>, <<3, 6>>>>]}}
MCRequests == MCIdle(0) \cup MCIdle(1) \cup MCAsked
=============================================================================
