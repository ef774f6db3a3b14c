------------------------------ MODULE FrontEnd ------------------------------
(***************************************************************************)
(* The page of the NFT contract (assignment-1/NFTfrontend/src/App.js) with *)
(* the contract behind it.  Its handlers are async functions: each runs to *)
(* an await, continues when a wallet or a node has answered, and only then *)
(* sets the state of the page.  So a call in progress is a task; tasks are *)
(* answered and continued in any order, while the chain goes on.           *)
(*                                                                         *)
(* External: the wallet, the node, the user, and the other users of the    *)
(* contract.  What a field may lack is a sequence of at most one value.    *)
(* verify calls a contract that is commented out, and nothing calls it.    *)
(***************************************************************************)
EXTENDS ZKUNFT, FiniteSets

CONSTANTS
    account,           \* the account of the wallet, without code
    PageURI,           \* the name and description every mint of the page has
    Used,              \* the panels the user uses
    MayLoad(_),        \* bound: the storages of the contract the page is opened on
    MaxClicks,         \* bound on what the user does on the page
    MaxTasks,          \* bound on the calls in progress before another one is started
    MaxMints           \* bound on the mints of others while it is open

Panels == {"leaves", "tree", "root"}

ASSUME PageAssumption ==
    account \in Users \ Contracts /\ PageURI \in URIs /\ Used \subseteq Panels

VARIABLES
    page,              \* the state of the component; <<>> before it is loaded
    copied,            \* the panels whose button says Copied!
    tasks,             \* the calls of handlers in progress
    timers,            \* panel -> its timers that are running, all of 2000 ms
    sent,              \* receivers of the mints sent from the page, not yet mined
    clicks, mints      \* counters for the bounds

pageVars == <<page, copied, tasks, timers>>
allVars  == <<vars, pageVars, sent, clicks, mints>>

Loaded == page # <<>>
Blank == [address |-> <<>>, NFTsNr |-> <<>>, receiver |-> <<>>, root |-> <<>>,
          leaves |-> <<>>, leavesLength |-> <<>>, tree |-> <<>>, treeLength |-> <<>>]

PageInit ==
    /\ Init
    /\ page = <<>> /\ copied = {} /\ tasks = <<>>
    /\ timers = [p \in Panels |-> 0]
    /\ sent = <<>> /\ clicks = 0 /\ mints = 0

-----------------------------------------------------------------------------
(* What the page shows. *)

NFTsLeftButton == page.NFTsNr
AddressField == page.address

Panel(p) ==
    [button |-> IF p \in copied THEN "Copied!" ELSE "Get",
     value  |-> page[p],
     count  |-> CASE p = "leaves" -> page.leavesLength
                  [] p = "tree"   -> page.treeLength
                  [] OTHER        -> <<>>]

Rendered == [left |-> NFTsLeftButton, address |-> AddressField,
             panels |-> [p \in Panels |-> Panel(p)]]

-----------------------------------------------------------------------------
(* The tasks. *)

Call(fn) == [fn |-> fn, at |-> "asked", got |-> <<>>]

\* What each handler awaits, one after the other.
LengthFirst == <<"getTreeLength", "getTree">>
TreeReads   == <<"getTree", "getTreeLength">>

Reads(fn) ==
    CASE fn = "loadWeb3"  -> <<"eth_requestAccounts">>
      [] fn = "nftsleft"  -> <<"NFTsLeft">>
      [] fn = "getLeaves" -> <<"getLeaves", "getLeavesLength">>
      [] fn = "getTree"   -> TreeReads
      [] fn = "getRoot"   -> <<"getRoot">>

Awaited(task) == Reads(task.fn)[Cardinality(DOMAIN task.got) + 1]

\* The views of the contract.
Answer(view) ==
    CASE view = "eth_requestAccounts" -> account
      [] view = "NFTsLeft"            -> nft.NFTsLeft
      [] view = "getLeaves"           -> nft.leaves
      [] view = "getLeavesLength"     -> Supply
      [] view = "getTree"             -> nft.tree
      [] view = "getTreeLength"       -> Len(nft.tree)
      [] view = "getRoot"             -> getRoot

\* What a handler sets when it has all its answers.
Settled(fn, got) ==
    CASE fn = "loadWeb3"  -> [page EXCEPT !.address = <<got.eth_requestAccounts>>]
      [] fn = "nftsleft"  -> [page EXCEPT !.NFTsNr = <<got.NFTsLeft>>]
      [] fn = "getLeaves" -> [page EXCEPT !.leaves = <<got.getLeaves>>,
                                          !.leavesLength = <<got.getLeavesLength>>]
      [] fn = "getTree"   -> [page EXCEPT !.tree = <<got.getTree>>,
                                          !.treeLength = <<got.getTreeLength>>]
      [] fn = "getRoot"   -> [page EXCEPT !.root = <<got.getRoot>>]

-----------------------------------------------------------------------------
(* The user. *)

Click ==
    /\ clicks < MaxClicks                                              \* bound
    /\ clicks' = clicks + 1
    /\ UNCHANGED <<vars, sent, mints>>

\* The page is opened, or loaded again: all it had in memory is gone.
Load ==
    /\ Loaded \/ MayLoad(nft)                                          \* bound
    /\ Click
    /\ page' = Blank /\ copied' = {} /\ timers' = [p \in Panels |-> 0]
    /\ tasks' = <<Call("loadWeb3"), Call("nftsleft")>>

TypeReceiver(user) ==
    /\ Loaded /\ page.receiver # <<user>> /\ Click
    /\ page' = [page EXCEPT !.receiver = <<user>>]
    /\ UNCHANGED <<copied, tasks, timers>>

Start(fn) ==
    /\ Loaded /\ Click
    /\ Len(tasks) < MaxTasks                                           \* bound
    /\ tasks' = Append(tasks, Call(fn))
    /\ UNCHANGED <<page, copied, timers>>

GetPanel(p) ==
    Start(CASE p = "leaves" -> "getLeaves" [] p = "tree" -> "getTree" [] p = "root" -> "getRoot")

\* mintNFT goes on after the alert that there is no receiver, and fails in the library.
MintNFT ==
    /\ Loaded /\ Click
    /\ Len(tasks) < MaxTasks                                           \* bound
    /\ tasks' = Append(tasks, [Call("mintNFT") EXCEPT !.got = [receiver |-> page.receiver]])
    /\ UNCHANGED <<page, copied, timers>>

HandleCopy(p) ==
    /\ Loaded /\ Click
    /\ copied' = copied \cup {p}
    /\ timers' = [timers EXCEPT ![p] = @ + 1]
    /\ UNCHANGED <<page, tasks>>

TimerFires(p) ==
    /\ timers[p] > 0
    /\ copied' = copied \ {p}
    /\ timers' = [timers EXCEPT ![p] = @ - 1]
    /\ UNCHANGED <<vars, page, tasks, sent, clicks, mints>>

-----------------------------------------------------------------------------
(* The wallet and the node, and the code after an await. *)

\* A node answers from the state after some whole transaction.
NodeAnswers(i) ==
    LET task == tasks[i]
    IN  /\ task.at = "asked" /\ task.fn # "mintNFT"
        /\ calls = <<>>
        /\ Awaited(task) = "getRoot" => nft.tree # <<>>      \* it reverts
        /\ tasks' = [tasks EXCEPT ![i].got = With(@, Awaited(task), Answer(Awaited(task))),
                                  ![i].at = "answered"]
        /\ UNCHANGED <<vars, page, copied, timers, sent, clicks, mints>>

\* The wallet signs and sends; before that it tries the transaction on the state it
\* finds.  The promise is resolved now, not when the transaction is mined.
WalletSends(i) ==
    LET task == tasks[i]
    IN  /\ task.at = "asked" /\ task.fn = "mintNFT"
        /\ task.got.receiver # <<>>
        /\ calls = <<>> /\ MayMint(account)
        /\ sent' = Append(sent, task.got.receiver[1])
        /\ tasks' = [tasks EXCEPT ![i].at = "answered"]
        /\ UNCHANGED <<vars, page, copied, timers, clicks, mints>>

\* Node or wallet may refuse; nobody catches the exception, and nothing is set.
Refused(i) ==
    /\ tasks[i].at = "asked"
    /\ tasks' = RemoveAt(tasks, i)
    /\ UNCHANGED <<vars, page, copied, timers, sent, clicks, mints>>

Complete(task) == DOMAIN task.got = Range(Reads(task.fn))

Continue(i) ==
    LET task == tasks[i]
    IN  /\ task.at = "answered" /\ task.fn # "mintNFT"
        /\ IF Complete(task)
           THEN /\ page' = Settled(task.fn, task.got)
                /\ tasks' = RemoveAt(tasks, i)
           ELSE /\ tasks' = [tasks EXCEPT ![i].at = "asked"]
                /\ UNCHANGED page
        /\ UNCHANGED <<vars, copied, timers, sent, clicks, mints>>

\* nftsleft is called before and after the alert that the NFT was minted; the alert
\* stops the page, so that both ask after it.
ContinueMint(i) ==
    /\ tasks[i].at = "answered" /\ tasks[i].fn = "mintNFT"
    /\ tasks' = RemoveAt(tasks, i) \o <<Call("nftsleft"), Call("nftsleft")>>
    /\ UNCHANGED <<vars, page, copied, timers, sent, clicks, mints>>

-----------------------------------------------------------------------------
(* The chain. *)

\* The oldest transaction of the wallet is mined; it fails if the supply is exhausted.
MineSent ==
    /\ sent # <<>> /\ calls = <<>>
    /\ \/ MintToAccount(account, Head(sent), PageURI)
       \/ MintToContract(account, Head(sent), PageURI)
       \/ ~ MayMint(account) /\ UNCHANGED vars
    /\ sent' = Tail(sent)
    /\ UNCHANGED <<pageVars, clicks, mints>>

OthersMint ==
    /\ ~ Loaded \/ mints < MaxMints                                    \* bound
    /\ \E from, receiver \in Users, uri \in URIs :
          MintToAccount(from, receiver, uri) \/ MintToContract(from, receiver, uri)
    /\ mints' = IF Loaded THEN mints + 1 ELSE mints
    /\ UNCHANGED <<pageVars, sent, clicks>>

ReceiverDecides ==
    /\ ReceiverReturns \/ ReceiverFails
    /\ UNCHANGED <<pageVars, sent, clicks, mints>>

PageNext ==
    \/ Load \/ MintNFT
    \/ \E user \in Users : TypeReceiver(user)
    \/ \E p \in Used : GetPanel(p) \/ HandleCopy(p) \/ TimerFires(p)
    \/ \E i \in DOMAIN tasks :
          NodeAnswers(i) \/ WalletSends(i) \/ Refused(i) \/ Continue(i) \/ ContinueMint(i)
    \/ MineSent \/ OthersMint \/ ReceiverDecides

PageSpec == PageInit /\ [][PageNext]_allVars
=============================================================================
