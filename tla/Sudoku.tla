------------------------------- MODULE Sudoku -------------------------------
(***************************************************************************)
(* examples/sudoku.  First sudoku.cc: exact cover with dancing links.  The *)
(* numbers 3, 9 and 81 of the code are boxSide, side and kCells.  nodes_   *)
(* is a sequence and a pointer is an index into it; root_ is the first.    *)
(* The recursion of solve() is a stack of frames: the column that was      *)
(* covered and the row that is being tried.                                *)
(*                                                                         *)
(* Then the servers with threads: server_multiloop.cc, which solves in the *)
(* loop of the connection, and server_threadpool.cc, which hands requests  *)
(* to a ThreadPool; a pool without threads solves them at once.  Requests  *)
(* of a connection are numbered; a good one has a puzzle of kCells         *)
(* characters.  Codecs.tla has the lines.                                  *)
(***************************************************************************)
EXTENDS Connections

CONSTANTS
  boxSide,
  Puzzles,       \* boards: sequences of kCells numbers, a character less '0'
  Workers,       \* the threads of the pool
  MaxRequests    \* bound: requests of a connection

side == boxSide * boxSide
kCells == side * side
root == 1

\* The row, the column or the box of a cell, the cells counted from 0.
Unit(kind, cell) ==
  CASE kind = "row" -> cell \div side
    [] kind = "col" -> cell % side
    [] kind = "box" -> ((cell \div side) \div boxSide) * boxSide + (cell % side) \div boxSide
Kinds == <<"row", "col", "box">>

\* get_row_col(), get_col_col() and get_box_col().
Name(k, unit, val) == 100 * k + unit * 10 + val

-----------------------------------------------------------------------------
\* Links.  The nodes that are met from node n on in one direction, n left out.
Walk(nodes, n, dir) ==
  LET from[at \in DOMAIN nodes] == IF at = n THEN <<>> ELSE <<at>> \o from[nodes[at][dir]]
  IN  from[nodes[n][dir]]

new_node(nodes, name) ==
  LET n == Len(nodes) + 1
  IN  Append(nodes, [left |-> n, right |-> n, up |-> n, down |-> n,
                     col |-> n, name |-> name, size |-> 0])

put_left(nodes, old, new) ==
  [nodes EXCEPT ![new].left = nodes[old].left, ![new].right = old,
                ![nodes[old].left].right = new, ![old].left = new]

put_up(nodes, old, new) ==
  [nodes EXCEPT ![new].up = nodes[old].up, ![new].down = old,
                ![nodes[old].up].down = new, ![old].up = new,
                ![old].size = @ + 1, ![new].col = old]

append_column(nodes, name) == put_left(new_node(nodes, name), root, Len(nodes) + 1)

\* new_row(), with the column in columns_.
new_row(nodes, name) ==
  put_up(new_node(nodes, name),
         CHOOSE c \in 2..Len(nodes) : nodes[c].col = c /\ nodes[c].name = name,
         Len(nodes) + 1)

-----------------------------------------------------------------------------
\* The constructor: a column for every empty cell and for every value that a row,
\* a column or a box misses; a row of four nodes for every value that an empty
\* cell may take.
Has(board, k, unit, val) ==
  \E cell \in 0..kCells - 1 : Unit(Kinds[k], cell) = unit /\ board[cell + 1] = val

ColumnNames(board) ==
  LET all == [n \in 1..3 * kCells |->
                [k |-> ((n - 1) % 3) + 1, unit |-> (n - 1) \div (3 * side),
                 val |-> (((n - 1) \div 3) % side) + 1]]
      missing == SelectSeq(all, LAMBDA m : ~Has(board, m.k, m.unit, m.val))
  IN  SelectSeq([n \in 1..kCells |-> n - 1], LAMBDA cell : board[cell + 1] = 0)
        \o [n \in DOMAIN missing |-> Name(missing[n].k, missing[n].unit, missing[n].val)]

Candidates(board) ==
  LET all == [n \in 1..kCells * side |->
                [cell |-> (n - 1) \div side, val |-> ((n - 1) % side) + 1]]
  IN  SelectSeq(all, LAMBDA c :
        board[c.cell + 1] = 0 /\ \A k \in 1..3 : ~Has(board, k, Unit(Kinds[k], c.cell), c.val))

AppendChoice(nodes, c) ==
  LET n0 == Len(nodes) + 1
      cell == new_row(nodes, c.cell)
      four == FoldLeft(LAMBDA ns, k : new_row(ns, Name(k, Unit(Kinds[k], c.cell), c.val)),
                       cell, <<1, 2, 3>>)
  IN  FoldLeft(LAMBDA ns, k : put_left(ns, n0, n0 + k), four, <<1, 2, 3>>)

-----------------------------------------------------------------------------
Others(nodes, c, down, right) ==
  FlattenSeq([n \in 1..Len(Walk(nodes, c, down)) |->
                Walk(nodes, Walk(nodes, c, down)[n], right)])

cover(nodes, c) ==
  LET out == [nodes EXCEPT ![nodes[c].right].left = nodes[c].left,
                           ![nodes[c].left].right = nodes[c].right]
      Unlink(ns, j) == [ns EXCEPT ![ns[j].down].up = ns[j].up,
                                  ![ns[j].up].down = ns[j].down, ![ns[j].col].size = @ - 1]
  IN  FoldLeft(Unlink, out, Others(nodes, c, "down", "right"))

uncover(nodes, c) ==
  LET Link(ns, j) == [ns EXCEPT ![ns[j].col].size = @ + 1, ![ns[j].down].up = j,
                                ![ns[j].up].down = j]
      linked == FoldLeft(Link, nodes, Others(nodes, c, "up", "left"))
  IN  [linked EXCEPT ![linked[c].right].left = c, ![linked[c].left].right = c]

\* The first column with one row or none, or else the first of the smallest.
get_min_column(nodes) ==
  LET cols == Walk(nodes, root, "right")
      small == SelectSeq(cols, LAMBDA c : nodes[c].size <= 1)
      least == Min({nodes[c].size : c \in ToSet(cols)})
  IN  IF small # <<>> THEN small[1] ELSE SelectSeq(cols, LAMBDA c : nodes[c].size = least)[1]

\* solve() that uncovers the columns of a row in the order it covered them.
UncoverForward(nodes, row) ==
  FoldLeft(LAMBDA ns, j : uncover(ns, ns[j].col), nodes, Walk(nodes, row, "right"))

\* solve(): cover() and uncover() of the other columns of a row.
CoverRow(nodes, row) ==
  FoldLeft(LAMBDA ns, j : cover(ns, ns[j].col), nodes, Walk(nodes, row, "right"))
UncoverRow(nodes, row) ==
  FoldLeft(LAMBDA ns, j : uncover(ns, ns[j].col), nodes, Walk(nodes, row, "left"))

-----------------------------------------------------------------------------
\* solveSudoku(): a board with a character that is no digit is not tried.  The
\* constructor then appends the columns and the rows one by one.
solveSudoku ==
  /\ ConnectionsInit
  /\ \E p \in Puzzles :
       LET valid == \A n \in 1..kCells : p[n] \in 0..side
       IN  app = [puzzle |-> p, board |-> p, frames |-> <<>>, stack |-> <<>>,
                  nodes |-> new_node(<<>>, 0), pc |-> IF valid THEN "columns" ELSE "invalid",
                  todo |-> IF valid THEN ColumnNames(p) ELSE <<>>]

AppendColumns ==
  /\ app.pc = "columns"
  /\ app' = IF app.todo = <<>>
            THEN [app EXCEPT !.todo = Candidates(app.board), !.pc = "rows"]
            ELSE [app EXCEPT !.nodes = append_column(@, Head(app.todo)), !.todo = Tail(@)]

AppendRows ==
  /\ app.pc = "rows"
  /\ app' = IF app.todo = <<>> THEN [app EXCEPT !.pc = "enter"]
            ELSE [app EXCEPT !.nodes = AppendChoice(@, Head(app.todo)), !.todo = Tail(@)]

\* solve() at the end: the cell and the value are read off the nodes of each row.
Filled ==
  [n \in 1..kCells |->
     LET Ring(r) == {app.nodes[m].name : m \in {r} \cup ToSet(Walk(app.nodes, r, "right"))}
         rows == {r \in ToSet(app.stack) : n - 1 \in Ring(r)}
     IN  IF rows = {} THEN app.board[n]
         ELSE (CHOOSE name \in Ring(CHOOSE r \in rows : TRUE) : name >= 100) % 10]

Enter ==
  /\ app.pc = "enter"
  /\ IF app.nodes[root].left = root
     THEN app' = [app EXCEPT !.board = Filled, !.pc = "solved"]
     ELSE LET col == get_min_column(app.nodes)
          IN  app' = [app EXCEPT !.nodes = cover(@, col), !.pc = "next",
                                 !.frames = Append(@, [col |-> col, row |-> col])]

TryRow ==
  /\ app.pc = "next"
  /\ LET f == Last(app.frames)
         row == app.nodes[f.row].down
     IN  IF row = f.col
         THEN app' = [app EXCEPT !.nodes = uncover(@, f.col), !.frames = Front(@),
                        !.pc = IF Len(app.frames) = 1 THEN "failed" ELSE "back"]
         ELSE app' = [app EXCEPT !.frames[Len(app.frames)].row = row, !.stack = Append(@, row),
                                 !.nodes = CoverRow(@, row), !.pc = "enter"]

GoBack ==
  /\ app.pc = "back"
  /\ app' = [app EXCEPT !.stack = Front(@), !.pc = "next",
                        !.nodes = UncoverRow(@, Last(app.frames).row)]

SolverInit == solveSudoku
SolverNext ==
  (AppendColumns \/ AppendRows \/ Enter \/ TryRow \/ GoBack)
    /\ UNCHANGED <<conn, sent, queue>>

-----------------------------------------------------------------------------
NamesOf(n) == {app.nodes[m].name : m \in {n} \cup ToSet(Walk(app.nodes, n, "right"))}
Columns == {c \in 2..Len(app.nodes) : app.nodes[c].col = c}

\* The columns that the choices made so far leave nothing to choose for.
Covered ==
  UNION {NamesOf(r) : r \in ToSet(app.stack)}
    \cup IF app.pc = "next" THEN {app.nodes[Last(app.frames).col].name} ELSE {}

\* However far the search has gone and come back, the links show just what the
\* rows of stack_ leave over: the columns nothing covers, in their first order,
\* and in each of them the rows that are in no one's way, with their number.
LinksInv ==
  app.pc \in {"enter", "next", "back", "failed"} =>
    LET cols == SelectSeq([n \in 1..Len(app.nodes) |-> n],
                          LAMBDA c : c \in Columns /\ app.nodes[c].name \notin Covered)
    IN  /\ Walk(app.nodes, root, "right") = cols
        /\ Walk(app.nodes, root, "left") = Reverse(cols)
        /\ \A c \in ToSet(cols) :
             LET rows == SelectSeq([n \in 1..Len(app.nodes) |-> n],
                           LAMBDA n : /\ app.nodes[n].col = c /\ n # c
                                      /\ NamesOf(n) \cap Covered = {})
             IN  /\ Walk(app.nodes, c, "down") = rows
                 /\ Walk(app.nodes, c, "up") = Reverse(rows)
                 /\ app.nodes[c].size = Len(rows)

\* A board without a value twice in a row, a column or a box.
Right(board) ==
  \A c, d \in 0..kCells - 1 :
    c # d /\ board[c + 1] = board[d + 1] =>
      \A k \in 1..3 : Unit(Kinds[k], c) # Unit(Kinds[k], d)

\* The answer is a right board that agrees with the puzzle, and there is one
\* whenever the puzzle has a solution.
SolvesIfSolvable ==
  LET free == {n \in 1..kCells : app.puzzle[n] = 0}
  IN  /\ app.pc = "solved" =>
           /\ Right(app.board) /\ \A n \in 1..kCells : app.board[n] \in 1..side
           /\ \A n \in 1..kCells \ free : app.board[n] = app.puzzle[n]
      /\ app.pc = "failed" =>
           \A f \in [free -> 1..side] :
             ~Right([n \in 1..kCells |-> IF n \in free THEN f[n] ELSE app.puzzle[n]])

\* LinksInv and SolvesIfSolvable.
SolverInv == LinksInv /\ SolvesIfSolvable

-----------------------------------------------------------------------------
(***************************************************************************)
(* The servers with threads.                                               *)
(***************************************************************************)
\* requests are what a client has sent, read is how many of them the server has
\* taken off its buffer; tasks and busy are the pool's queue and its threads.
ServerInit ==
  /\ ConnectionsInit
  /\ \E threads \in {{}} \cup {{w} : w \in Workers} \cup {Workers} :
       app = [threads |-> threads, requests |-> [c \in Conns |-> <<>>],
              read |-> [c \in Conns |-> 0], tasks |-> <<>>, busy |-> [w \in {} |-> 0]]

\* ThreadPool::run(), where a pool without threads is the loop itself.
InLoop == app.threads = {}

onConnection(c) == (Establish(c) \/ Lose(c)) /\ UNCHANGED <<sent, queue, app>>

Ask(c, good) ==
  /\ conn[c] = "up" /\ Len(app.requests[c]) < MaxRequests
  /\ app' = [app EXCEPT !.requests[c] = Append(@, good)]
  /\ UNCHANGED <<conn, sent, queue>>

\* processRequest(): good requests are given to the pool, or solved at once.
processRequest(good) == [app EXCEPT !.tasks = IF InLoop THEN @ ELSE @ \o good]
Solved(good) == IF InLoop THEN good ELSE <<>>

\* onMessage(), with the requests up to number n in the buffer: the loop ends
\* after the first that is not good.
onMessage(c, n) ==
  LET new == app.read[c] + 1..n
      bad == {i \in new : ~app.requests[c][i]}
      last == IF bad = {} THEN n ELSE Min(bad)
      good == [i \in 1..(last - app.read[c] - Cardinality(bad \cap {last})) |->
                 [conn |-> c, id |-> app.read[c] + i]]
      refusal == IF bad = {} THEN <<>> ELSE <<[conn |-> c, id |-> 0]>>
  IN  /\ Open(c) /\ new # {}
      /\ app' = [processRequest(good) EXCEPT !.read[c] = last]
      /\ sent' = IF conn[c] # "up" THEN sent
                 ELSE [sent EXCEPT ![c] = @ \o Solved(good) \o refusal]
      /\ conn' = IF bad = {} THEN conn ELSE Closed(c)
      /\ UNCHANGED queue

-----------------------------------------------------------------------------
\* A pool that gives the newest task to a thread.
TakeNewest(w) ==
  /\ w \in app.threads \ DOMAIN app.busy /\ app.tasks # <<>>
  /\ app' = [app EXCEPT !.tasks = Front(@), !.busy = (w :> Last(app.tasks)) @@ @]
  /\ UNCHANGED <<conn, sent, queue>>

\* ThreadPool::take().
Take(w) ==
  /\ w \in app.threads \ DOMAIN app.busy /\ app.tasks # <<>>
  /\ app' = [app EXCEPT !.tasks = Tail(@), !.busy = (w :> Head(app.tasks)) @@ @]
  /\ UNCHANGED <<conn, sent, queue>>

\* solve(), in a thread of the pool: send() looks at the state of the connection
\* and has the loop send.
solve(w) ==
  LET task == app.busy[w]
  IN  /\ app' = [app EXCEPT !.busy = [v \in DOMAIN @ \ {w} |-> @[v]]]
      /\ queue' = IF conn[task.conn] = "up" THEN Queued(LoopOf[task.conn], task) ELSE queue
      /\ UNCHANGED <<conn, sent>>

\* sendInLoop(): after shutdown() the answer still goes out when there was output
\* left to write.
RunFunctor(l) ==
  /\ queue[l] # <<>>
  /\ queue' = [queue EXCEPT ![l] = Tail(@)]
  /\ LET m == Head(queue[l])
         done == [sent EXCEPT ![m.conn] = Append(@, m)]
     IN  CASE conn[m.conn] = "up" -> sent' = done
           [] conn[m.conn] = "closing" -> sent' \in {sent, done}
           [] OTHER -> UNCHANGED sent
  /\ UNCHANGED <<conn, app>>

ServerNext ==
  \/ \E c \in Conns :
       \/ onConnection(c)
       \/ \E good \in BOOLEAN : Ask(c, good)
       \/ \E n \in DOMAIN app.requests[c] : onMessage(c, n)
  \/ \E w \in Workers : Take(w)
  \/ \E w \in DOMAIN app.busy : solve(w)
  \/ \E l \in Loops : RunFunctor(l)

-----------------------------------------------------------------------------
Answers(c) == SelectSeq(sent[c], LAMBDA m : m.id # 0)
UnderWay(c) ==
  {m \in ToSet(app.tasks) \cup {app.busy[w] : w \in DOMAIN app.busy}
           \cup UNION {ToSet(queue[l]) : l \in Loops} : m.conn = c}

\* An answer goes to the connection that asked, once; as long as the connection
\* is up every good request that was read has an answer or will get one; and the
\* answers keep the order of the requests unless there are several threads.
EachIsAnswered ==
  \A c \in Conns :
    LET ids == {m.id : m \in ToSet(Answers(c))}
    IN  /\ Cardinality(ids) = Len(Answers(c))
        /\ \A m \in ToSet(sent[c]) : m.conn = c /\ (m.id # 0 => app.requests[c][m.id])
        /\ ids \cap {m.id : m \in UnderWay(c)} = {}
        /\ conn[c] = "up" =>
             ids \cup {m.id : m \in UnderWay(c)} = {i \in 1..app.read[c] : app.requests[c][i]}
        /\ Cardinality(app.threads) <= 1 =>
             \A i, j \in DOMAIN Answers(c) : i < j => Answers(c)[i].id < Answers(c)[j].id
=============================================================================
