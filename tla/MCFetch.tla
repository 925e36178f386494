------------------------------- MODULE MCFetch -------------------------------
(***************************************************************************)
(* Small projects for Fetch: pins that move, a declaration that only the   *)
(* blind walk finds against one inside an external, headers that move once *)
(* they have been read, and trees of the user.                             *)
(***************************************************************************)
EXTENDS Fetch

MCTags == "v1" :> 1 @@ "v2" :> 2
MCShas == "c2" :> 2
MCNames == {"E", "N", "X", "Y"}
MCLower == "E" :> "e" @@ "N" :> "n" @@ "X" :> "n" @@ "Y" :> "y"
MCUrls == {"uE", "uN", "fork"}

D(n, u, r) == [name |-> n, url |-> u, ref |-> r]
Inc(f) == [to |-> f, when |-> Always, root |-> FALSE]
IncIf(m, f) == [to |-> f, when |-> <<"def", m>>, root |-> FALSE]
IncUnless(m, f) == [to |-> f, when |-> <<"ndef", m>>, root |-> FALSE]
IncRoot(f) == [to |-> f, when |-> Always, root |-> TRUE]
File(decls, incs) == [decls |-> decls, defs |-> {}, incs |-> incs]
Leaf == File(<< >>, << >>)

\* The header of E, the same in both of its commits; the others say nothing.
Repo(e) == "uE" :> <<e, e>> @@ "uN" :> <<Leaf, Leaf>> @@ "fork" :> <<Leaf, Leaf>>

User(is, url, head, on, dirty) ==
  [is |-> is, url |-> url, head |-> head, on |-> on, main |-> 1, seen |-> 1, objs |-> 2, tags |-> 2,
   dirty |-> dirty, half |-> FALSE, by |-> ByUser]

Base ==
  [files |-> "main" :> Leaf, repo |-> Repo(Leaf), tip |-> [u \in MCUrls |-> 2],
   tree |-> [n \in MCNames |-> NoTree], moving |-> {},
   targets |-> [p \in Procs |-> <<"main", "main">>], mode |-> [p \in Procs |-> "default"]]

E0 == D("E", "uE", NoRef)
N0(r) == D("N", "uN", r)
F0(r) == D("N", "fork", r)
DeclaresY == File(<<D("Y", "fork", NoRef)>>, << >>)

\* E's header declares N as `won`; a file behind #ifdef NEVER declares it as `lost`.
Displacing(won, lost, root) ==
  [Base EXCEPT
     !.files = "main" :> File(<<E0>>, <<IF root THEN IncRoot("E") ELSE Inc("E"), IncIf("NEVER", "blind")>>)
               @@ "blind" :> File(<<lost>>, << >>),
     !.repo = Repo(File(<<won>>, << >>))]

\* A header that picks between two pins by a macro of E's.
Selecting ==
  [Base EXCEPT
     !.files = "main" :> File(<<E0>>, <<Inc("E"), Inc("sel")>>)
               @@ "sel" :> File(<< >>, <<IncIf("HAVE_E", "b"), IncUnless("HAVE_E", "a")>>)
               @@ "a" :> File(<<D("N", "uN", "v1")>>, << >>)
               @@ "b" :> File(<<D("N", "uN", "v2")>>, << >>),
     !.repo = Repo([Leaf EXCEPT !.defs = {"HAVE_E"}])]

\* One process, and one run of it.
Once(w) == [w EXCEPT !.targets = [p \in Procs |-> IF p = "p1" THEN <<"main">> ELSE << >>]]

\* The losing pin is read before it is displaced, and its header declares Y.
LoserDeclares(lost) ==
  [Displacing(N0("v2"), lost, TRUE) EXCEPT
     !.files["blind"] = File(<<lost>>, <<Inc("N")>>),
     !.repo["uN"]   = <<DeclaresY, Leaf>>,
     !.repo["fork"] = <<DeclaresY, DeclaresY>>]

\* A header that --update moves once it has been read: it declares N no longer.
MovedHeader ==
  [Base EXCEPT !.files = "main" :> File(<<E0>>, <<Inc("E")>>),
               !.repo["uE"] = <<File(<<N0(NoRef)>>, << >>), Leaf>>,
               !.tree["E"] = User("clone", "uE", 1, Branch, FALSE),
               !.mode = [p \in Procs |-> "update"]]

\* A directory of the user's that is no work tree, with a header that declares Y.
PlainDeclares ==
  [Base EXCEPT !.files = "main" :> File(<<N0(NoRef)>>, <<IncRoot("N")>>),
               !.repo["uN"] = <<DeclaresY, DeclaresY>>,
               !.tree["N"] = User("plain", "uN", 1, None, FALSE)]

\* A pin that the project moves between two runs, or that two projects differ in.
Pins(first, second) ==
  [Base EXCEPT !.files = "main" :> File(<<first>>, << >>) @@ "next" :> File(<<second>>, << >>),
               !.targets = [p \in Procs |-> <<"main", "next">>]]

Moved(w, t) == [w EXCEPT !.tip["uN"] = t, !.moving = {"uN"}]
With(w, n, t) == [w EXCEPT !.tree[n] = t]
As(w, mode) == [w EXCEPT !.mode = [p \in Procs |-> mode]]

UserTrees == {User("plain", "uN", 1, None, FALSE), User("worktree", "uN", 1, None, FALSE),
              User("worktree", "uN", 2, Branch, TRUE)}
             \cup {User("clone", u, 1, Branch, d) : u \in {"uN", "fork"}, d \in BOOLEAN}

MCWorlds ==
  {Displacing(won, lost, TRUE) : won \in {N0(Branch), N0(NoRef), N0("v2")}, lost \in {N0("v1"), F0("v1")}}
  \cup {Displacing(N0("v2"), F0(NoRef), FALSE), Selecting}
  \cup {Once(w) : w \in {LoserDeclares(N0("v1")), LoserDeclares(F0("v1")), MovedHeader, PlainDeclares}}
  \cup {Moved(Pins(N0("v1"), N0(r)), 1) : r \in {"v2", "c2", Branch}}
  \cup {Moved(As(Pins(N0(Branch), N0(NoRef)), "update"), 1), As(Pins(N0("v1"), N0("v2")), "no_fetch")}
  \cup {With(Displacing(N0("v2"), F0("v1"), TRUE), "N", t) : t \in UserTrees}
  \cup {[Base EXCEPT !.files = "main" :> File(<<N0(NoRef), D("X", "fork", NoRef)>>, << >>)],
        [Base EXCEPT !.files = "main" :> File(<<E0>>, <<IncRoot("E")>>),
                     !.repo = "uE" :> <<File(<<N0(NoRef)>>, <<IncRoot("N")>>), Leaf>>
                              @@ "uN" :> <<Leaf, File(<<D("X", "fork", NoRef)>>, << >>)>>
                              @@ "fork" :> <<Leaf, Leaf>>,
                     !.tip["uE"] = 1]}

==============================================================================
