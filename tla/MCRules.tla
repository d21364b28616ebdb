------------------------------- MODULE MCRules -------------------------------
(* The questions TLC asks of the rules.                                     *)
EXTENDS Rules

\* Any reply to a sound request whose envelope is right, one reply for every other
\* envelope with one part wrong, and one to every other request.
Sound == [issues |-> {}, ours |-> TRUE]
Envelope(reply) == {part \in {"application", "intent", "boundary", "policy"} : ~reply[part]}
Replies == {reply \in Latch!Reply : Envelope(reply) = {}}
Answer == CHOOSE reply \in Replies : Latch!Verdict(Sound, reply) = "accepted"
Misdirected == {[Answer EXCEPT ![part] = FALSE] :
                  part \in {"application", "intent", "boundary", "policy"}}
Dialogues == ({Sound} \X (Replies \cup Misdirected)) \cup ((Latch!Request \ {Sound}) \X {Answer})

\* Résumés of one page, just over one, and more, ending in an entry of every form.
Entry(heading, date, lines, bullets) ==
  [heading |-> heading, date |-> date, lines |-> lines, bullets |-> bullets]

Ending ==
  {Entry(<<>>, <<>>, <<>>, <<>>),
   Entry(<<>>, <<>>, <<>>, <<<<130, 20>>, <<>>, <<7>>>>),
   Entry(<<12, 8>>, <<>>, <<<<60, 50, 20, 250>>, <<3>>>>, <<>>),
   Entry(<<50, 40>>, <<30>>, <<>>, <<<<116>>, <<117, 1>>>>),
   Entry(<<20>>, <<40>>, <<>>, <<<<9>>>>),
   Entry(<<5>>, <<109>>, <<>>, <<>>),
   Entry(<<110, 7>>, <<>>, <<>>, <<>>),
   Entry(<<>>, <<10>>, <<>>, <<>>)}

Resumes ==
  {[name |-> <<5, 4>>, headerLines |-> headerLines, sections |->
      <<[title |-> 10, entries |->
           <<Entry(<<20>>, <<9>>, <<>>, [i \in 1..bullets |-> <<30, 40>>])>>],
        [title |-> 150, entries |-> <<ending>>]>>] :
     headerLines \in {<<>>, <<40, 200>>}, bullets \in {0, 1, 75} \cup 64..69,
     ending \in Ending}

\* Pages from full to empty, against a full and an emptier baseline.
Layouts ==
  [pages : {1, 2}, whitespace : {500, 8000, 30000, 70000}, oneLine : {0, 60, 100},
   skills : {0, 1, 6}, final : {0, 9}, lines : {20, 60}]

Full == {m \in Layouts : m.pages = 1 /\ m.whitespace <= 8000 /\ m.oneLine = 0
                           /\ m.skills = 1 /\ m.final = 9}
Drafts == [measure : Layouts, fit : {3}, high : {0}, other : {1}]
Retries == [measure : {m \in Layouts : m.oneLine = 0 /\ m.skills = 1 /\ m.final = 9},
            fit : {1, 2}, high : {0, 1}, other : {1}]

==============================================================================
