---------------------------- MODULE ResumeLayout ----------------------------
(***************************************************************************)
(* The layout of a résumé (packages/tailoring/src/pdf.ts): texts are       *)
(* wrapped to their boxes, the items put on pages, and the pages measured. *)
(*                                                                         *)
(* A text is the sequence of the lengths of its words, a line its length:  *)
(* a letter's width depends on the font alone, so a box holds a number of  *)
(* letters.  Heights are in thousandths of a point, each item's height     *)
(* being 1.06 times its size.  A header line, a section's title and the    *)
(* two texts of a row are one line each, however long they are.  Sections  *)
(* have different titles; those the renderer skips are left out.           *)
(***************************************************************************)
EXTENDS Integers, Sequences, FiniteSets, SequencesExt

Words == Seq(Nat \ {0})

Document ==
  [name : Words, headerLines : Seq(Nat \ {0}), sections :
     Seq([title : Nat, entries :
       Seq([heading : Words, date : Words, lines : Seq(Words), bullets : Seq(Words)])])]

PaperTop == 792000
PageTop == 792000 - 26000
PageBottom == 24000

\* Letters in a box: a wrapped heading, a date under it, a line, a bullet.
Room == [name |-> 63, heading |-> 105, date |-> 118, line |-> 120, bullet |-> 117]

Height == [name |-> 18232, contact |-> 9434, rule |-> 600, section |-> 11236, row |-> 10971,
           heading |-> 10971, date |-> 10600, line |-> 10176, bullet |-> 9805, spacer |-> 0]

----------------------------------------------------------------------------

\* A word that fits neither behind the others nor on a line of its own is cut
\* into full lines.  The first word of a text is taken as it is.
WrapWord(max, so, word) ==
  IF so.current = 0 \/ so.current + 1 + word <= max
  THEN [so EXCEPT !.current = IF @ = 0 THEN word ELSE @ + 1 + word]
  ELSE LET full == IF word > max THEN (word - 1) \div max ELSE 0
       IN  [lines |-> so.lines \o <<so.current>> \o [i \in 1..full |-> max],
            current |-> word - full * max]

Wrapping(words, max) ==
  LET so[i \in 0..Len(words)] ==
        IF i = 0 THEN [lines |-> <<>>, current |-> 0] ELSE WrapWord(max, so[i - 1], words[i])
  IN  so

wrapText(words, max) ==
  LET all == Wrapping(words, max)[Len(words)]
  IN  IF all.current = 0 THEN all.lines ELSE Append(all.lines, all.current)

\* The words with a space between any two.
TextLength(words) ==
  LET upTo[i \in 0..Len(words)] ==
        IF i = 0 THEN 0 ELSE upTo[i - 1] + words[i] + (IF i = 1 THEN 0 ELSE 1)
  IN  upTo[Len(words)]

\* `right' is the date of a row, `of' the number of lines of the bullet that
\* starts here, `section' the section (0: the page's head).
Item(kind, section, before, after, chars) ==
  [kind |-> kind, section |-> section, before |-> before, height |-> Height[kind],
   after |-> after, chars |-> chars, right |-> 0, of |-> 0]

pushWrappedText(words, kind, section, before) ==
  LET lines == wrapText(words, Room[kind])
  IN  [i \in DOMAIN lines |-> Item(kind, section, IF i = 1 THEN before ELSE 0, 0, lines[i])]

pushBulletParagraph(words, section) ==
  LET lines == wrapText(words, Room.bullet)
  IN  [i \in DOMAIN lines |->
        [Item("bullet", section, 0, 0, lines[i]) EXCEPT !.of = IF i = 1 THEN Len(lines) ELSE 0]]

\* The heading and the date share a row when both fit with a gap of 14 points.
ShareRow(heading, date) ==
  5175 * TextLength(heading) <= 530000 - 4600 * TextLength(date)

EntryHead(entry, section) ==
  IF entry.heading # <<>> /\ entry.date # <<>>
  THEN IF ShareRow(entry.heading, entry.date)
       THEN <<[Item("row", section, 800, 0, TextLength(entry.heading))
                 EXCEPT !.right = TextLength(entry.date)]>>
       ELSE pushWrappedText(entry.heading, "heading", section, 800)
              \o pushWrappedText(entry.date, "date", section, 0)
  ELSE pushWrappedText(entry.heading, "heading", section, 800)
         \o pushWrappedText(entry.date, "date", section, 800)

EntryItems(entry, section) ==
  EntryHead(entry, section)
    \o FlattenSeq([i \in DOMAIN entry.lines |-> pushWrappedText(entry.lines[i], "line", section, 0)])
    \o FlattenSeq([i \in DOMAIN entry.bullets |-> pushBulletParagraph(entry.bullets[i], section)])
    \o <<Item("spacer", section, 0, 1200, 0)>>

HeadItems(document) ==
  LET name == wrapText(document.name, Room.name)
  IN  [i \in DOMAIN name |-> Item("name", 0, 0, IF i = Len(name) THEN 1500 ELSE 0, name[i])]
        \o [i \in DOMAIN document.headerLines |->
              Item("contact", 0, 0, 0, document.headerLines[i])]
        \o <<Item("rule", 0, 5500, 6000, 0)>>

SectionItems(title, entries, section) ==
  <<Item("section", section, IF section = 1 THEN 0 ELSE 3000, 3600, title)>>
    \o FlattenSeq([e \in DOMAIN entries |-> EntryItems(entries[e], section)])

buildLayout(document) ==
  HeadItems(document)
    \o FlattenSeq([s \in DOMAIN document.sections |->
         SectionItems(document.sections[s].title, document.sections[s].entries, s)])

----------------------------------------------------------------------------

Below(y, item) == y - (item.before + item.height + item.after)

\* Faulty variant: an item's own height is forgotten.
FitsTop(y, item) == y - item.before >= PageBottom

Fits(y, item) == y - item.before - item.height >= PageBottom

OnLast(pages, item) == [pages EXCEPT ![Len(pages)] = Append(@, item)]

PutOn(at, item) ==
  LET fits == Fits(at.y, item)
  IN  [at EXCEPT !.pages = IF fits THEN OnLast(@, item) ELSE Append(@, <<item>>),
                 !.y = Below(IF fits THEN @ ELSE PageTop, item)]

Paginating(items) ==
  LET at[i \in 0..Len(items)] ==
        IF i = 0 THEN [pages |-> <<(<<>>)>>, y |-> PageTop] ELSE PutOn(at[i - 1], items[i])
  IN  at

\* Empty pages are left out: only the first one may be empty.
paginate(items) ==
  LET pages == Paginating(items)[Len(items)].pages
  IN  IF pages[1] = <<>> THEN Tail(pages) ELSE pages

\* How far down the page the drawing is after each item.
Drawing(page) ==
  LET below[i \in 0..Len(page)] == IF i = 0 THEN PageTop ELSE Below(below[i - 1], page[i])
  IN  below

\* Where it puts the baselines of the items: a text's letters rise from there.
pageContentStream(page) == [i \in DOMAIN page |-> Drawing(page)[i - 1] - page[i].before]

isRenderableLineItem(item) == item.kind \notin {"rule", "spacer"}

CountOf(items, Test(_)) == Cardinality({i \in DOMAIN items : Test(items[i])})

StartsBullet(item) == item.of > 0

buildLayoutMetrics(pages) ==
  LET items == FlattenSeq(pages)
      last == pages[Len(pages)]
      finalY == Drawing(last)[Len(last)]
      sections == {items[i].section : i \in DOMAIN items} \ {0}
  IN  [pageCount |-> Len(pages), overflowed |-> Len(pages) > 1,
       bottomWhitespace |-> IF finalY > PageBottom THEN finalY - PageBottom ELSE 0,
       totalRenderedLines |-> CountOf(items, isRenderableLineItem),
       bullets |-> CountOf(items, StartsBullet),
       oneLineBullets |-> CountOf(items, LAMBDA item : item.of = 1),
       sectionLines |-> [s \in sections |->
         CountOf(items, LAMBDA item : item.section = s /\ isRenderableLineItem(item))]]

----------------------------------------------------------------------------

HasContent(entry) ==
  \E texts \in {<<entry.heading, entry.date>>, entry.lines, entry.bullets} :
    \E i \in DOMAIN texts : texts[i] # <<>>

\* No line is wider than its box, but a first word is never cut.
WrapsWell(texts, max) ==
  \A t \in DOMAIN texts : LET lines == wrapText(texts[t], max) IN
    \A i \in DOMAIN lines : lines[i] <= max \/ (i = 1 /\ lines[1] = texts[t][1])

\* Every item is on a page, in order.
NothingIsLost(document) ==
  FlattenSeq(paginate(buildLayout(document))) = buildLayout(document)

\* The drawing puts every baseline between the margins, with a line's height left
\* above the bottom one.  The letters of a page's first line rise into the top
\* margin, but stay on the paper.
StaysOnPaper(pages) ==
  \A p \in DOMAIN pages : LET y == pageContentStream(pages[p]) IN
    \A i \in DOMAIN y :
      /\ y[i] <= PageTop /\ y[i] - pages[p][i].height >= PageBottom
      /\ y[i] + pages[p][i].height <= PaperTop

\* The heading and the date of a row are clear of each other.  A date is measured
\* at 10 points and drawn at 10.35, so one of more than 86 letters may reach into
\* the heading, by less than a letter.
DatesAreClear(items) ==
  \A i \in DOMAIN items : items[i].kind = "row" =>
    LET width == 5175 * items[i].chars + 4761 * items[i].right
    IN  width <= 544000 \/ (items[i].right > 86 /\ width < 544000 + 4761)

\* What is wrapped fits: the name, and an entry's heading, date, lines and bullets.
LinesFit(document) ==
  /\ WrapsWell(<<document.name>>, Room.name)
  /\ \A s \in DOMAIN document.sections : \A e \in DOMAIN document.sections[s].entries :
       LET entry == document.sections[s].entries[e]
       IN  /\ WrapsWell(<<entry.heading>>, Room.heading) /\ WrapsWell(<<entry.date>>, Room.date)
           /\ WrapsWell(entry.lines, Room.line) /\ WrapsWell(entry.bullets, Room.bullet)

\* No page is blank when there is a section and every entry says something.
NoBlankPage(document) ==
  /\ document.sections # <<>>
  /\ \A s \in DOMAIN document.sections : \A e \in DOMAIN document.sections[s].entries :
       HasContent(document.sections[s].entries[e])
  => LET pages == paginate(buildLayout(document)) IN
     \A p \in DOMAIN pages : \E i \in DOMAIN pages[p] : isRenderableLineItem(pages[p][i])

\* The measure taken of the pages counts every bullet once.
BulletsAreCounted(document) ==
  LET metrics == buildLayoutMetrics(paginate(buildLayout(document)))
      Bullets(entries) == FlattenSeq([e \in DOMAIN entries |-> entries[e].bullets])
      bullets == FlattenSeq([s \in DOMAIN document.sections |->
                              Bullets(document.sections[s].entries)])
  IN  /\ metrics.bullets = CountOf(bullets, LAMBDA words : words # <<>>)
      /\ metrics.oneLineBullets <= metrics.bullets

\* What is printed of a résumé: nothing is lost, everything is on the paper and
\* above the bottom margin, a date is clear of its heading but for a letter, no
\* page is blank, and the measure counts what is printed.  A text that is wrapped
\* is no wider than its box unless it starts with a word that is.  Header lines
\* and section titles are not wrapped: no bound on their width is claimed, and
\* one that is longer than the page is printed over its edge.
PrintedWhole(document) ==
  /\ NothingIsLost(document)
  /\ StaysOnPaper(paginate(buildLayout(document)))
  /\ DatesAreClear(buildLayout(document))
  /\ LinesFit(document)
  /\ NoBlankPage(document)
  /\ BulletsAreCounted(document)

=============================================================================
