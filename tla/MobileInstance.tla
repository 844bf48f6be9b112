--------------------------- MODULE MobileInstance ---------------------------
(***************************************************************************)
(* Boxes on a phone: Instance (mobile/instance.go), the boxes of tests     *)
(* (prepareTestEnv of mobile/test.go), the Xray stack each brings along    *)
(* (mobile/xray.go), the resolver of that stack (internal/xraydns) and the *)
(* protector all of them share.  The platform hands every call an object   *)
(* of its own, so a box stands for its platform, too.                      *)
(***************************************************************************)
EXTENDS FiniteSets

CONSTANTS
    MobileBoxes,
    XrayNeeds,      \* sets of Xray parts a request may ask for: "main", "full"
    NoBox           \* the nil of a pointer to one of them

VARIABLES
    mKind,          \* "none", "main", "probe"
    mNeeds, stack,  \* Xray parts asked for, and up
    mPC,            \* where the thread that makes and starts the box is
    mBox, mCtx,     \* the sing-box box and its context
    mClosed,        \* Instance.closed
    closePC,        \* where the Close that does the work is
    overtook,       \* history: the box was closed while its start was under way
    holder,         \* boxContextHolder of each box
    transport,      \* the box whose transport the resolver of each box cached
    protector,      \* the box whose platform dials are protected with
    installed       \* the box that last installed it

vars == <<mKind, mNeeds, stack, mPC, mBox, mCtx, mClosed, closePC,
          overtook, holder, transport, protector, installed>>

Init ==
    /\ mKind = [i \in MobileBoxes |-> "none"]
    /\ mNeeds = [i \in MobileBoxes |-> {}] /\ stack = [i \in MobileBoxes |-> {}]
    /\ mPC = [i \in MobileBoxes |-> "idle"]
    /\ mBox = [i \in MobileBoxes |-> "none"] /\ mCtx = [i \in MobileBoxes |-> "none"]
    /\ mClosed = [i \in MobileBoxes |-> FALSE] /\ closePC = [i \in MobileBoxes |-> "idle"]
    /\ overtook = [i \in MobileBoxes |-> FALSE]
    /\ holder = [i \in MobileBoxes |-> NoBox] /\ transport = [i \in MobileBoxes |-> NoBox]
    /\ protector = NoBox /\ installed = NoBox

Goto(i, from, to) == mPC[i] = from /\ mPC' = [mPC EXCEPT ![i] = to]

-----------------------------------------------------------------------------
(* NewInstance and prepareTestEnv *)

installProtector(i) == protector' = i /\ installed' = i

NewInstance(i, needs) ==
    /\ Goto(i, "idle", "main")
    /\ mKind' = [mKind EXCEPT ![i] = "main"] /\ mNeeds' = [mNeeds EXCEPT ![i] = needs]
    /\ installProtector(i)
    /\ UNCHANGED <<stack, mBox, mCtx, mClosed, closePC, overtook, holder, transport>>

\* Off a device there is no platform to install.
prepareTestEnv(i, needs) ==
    /\ Goto(i, "idle", "main")
    /\ mKind' = [mKind EXCEPT ![i] = "probe"] /\ mNeeds' = [mNeeds EXCEPT ![i] = needs]
    /\ installProtector(i) \/ UNCHANGED <<protector, installed>>
    /\ UNCHANGED <<stack, mBox, mCtx, mClosed, closePC, overtook, holder, transport>>

\* The sidecar, eager or behind a gate, then the full configurations.
StartXray(i, part, next) ==
    /\ Goto(i, part, next)
    /\ stack' = [stack EXCEPT ![i] = @ \cup (mNeeds[i] \cap {part})]
    /\ UNCHANGED <<mKind, mNeeds, mBox, mCtx, mClosed, closePC, overtook,
                   holder, transport, protector, installed>>
startMainXray(i) == StartXray(i, "main", "full")
startXrayFull(i) == StartXray(i, "full", "parse")

\* A part of the stack or the configuration fails: the stack that is up goes down.
NewFails(i) ==
    /\ mPC[i] \in mNeeds[i] \cup {"parse"}
    /\ mPC' = [mPC EXCEPT ![i] = "failed"]
    /\ stack' = [stack EXCEPT ![i] = {}]
    /\ UNCHANGED <<mKind, mNeeds, mBox, mCtx, mClosed, closePC, overtook, holder,
                   transport, protector, installed>>

\* The configuration is read; the context that box.New gets can be cancelled.
parseConfig(i) ==
    /\ Goto(i, "parse", "new")
    /\ mCtx' = [mCtx EXCEPT ![i] = "live"]
    /\ UNCHANGED <<mKind, mNeeds, stack, mBox, mClosed, closePC, overtook, holder,
                   transport, protector, installed>>

BoxNew(i) ==
    /\ Goto(i, "new", "publish")
    /\ mBox' = [mBox EXCEPT ![i] = "made"]
    /\ UNCHANGED <<mKind, mNeeds, stack, mCtx, mClosed, closePC, overtook, holder,
                   transport, protector, installed>>

BoxNewFailsUncancelled(i) ==
    /\ Goto(i, "new", "failed")
    /\ stack' = [stack EXCEPT ![i] = {}]
    /\ UNCHANGED <<mKind, mNeeds, mBox, mCtx, mClosed, closePC, overtook, holder,
                   transport, protector, installed>>

\* The context of the box that could not be made is cancelled, then the stack
\* taken down.
BoxNewFails(i) ==
    /\ Goto(i, "new", "failed")
    /\ mCtx' = [mCtx EXCEPT ![i] = "cancelled"]
    /\ stack' = [stack EXCEPT ![i] = {}]
    /\ UNCHANGED <<mKind, mNeeds, mBox, mClosed, closePC, overtook, holder,
                   transport, protector, installed>>

PublishGlobal(i) ==
    /\ Goto(i, "publish", "made")
    /\ holder' = [j \in MobileBoxes |-> i]
    /\ UNCHANGED <<mKind, mNeeds, stack, mBox, mCtx, mClosed, closePC,
                   overtook, transport, protector, installed>>

\* Before the start, which may already resolve through Xray.
Publish(i) ==
    /\ Goto(i, "publish", "made")
    /\ holder' = [holder EXCEPT ![i] = i]
    /\ UNCHANGED <<mKind, mNeeds, stack, mBox, mCtx, mClosed, closePC,
                   overtook, transport, protector, installed>>

-----------------------------------------------------------------------------
(* Start, outside the lock once started is set *)

Start(i) ==
    /\ Goto(i, "made", IF mClosed[i] THEN "refused" ELSE "starting")
    /\ UNCHANGED <<mKind, mNeeds, stack, mBox, mCtx, mClosed, closePC,
                   overtook, holder, transport, protector, installed>>

\* A box that was closed meanwhile may still have brought parts of itself up.
BoxStarts(i) ==
    /\ Goto(i, "starting", "running")
    /\ \/ mBox[i] = "made" /\ mBox' = [mBox EXCEPT ![i] = "up"]
       \/ mBox[i] # "made" /\ UNCHANGED mBox
       \/ mBox[i] # "made" /\ mBox' = [mBox EXCEPT ![i] = "remnant"]
    /\ UNCHANGED <<mKind, mNeeds, stack, mCtx, mClosed, closePC, overtook,
                   holder, transport, protector, installed>>

\* A box that does not start closes itself; one that was closed before refuses that.
BoxStartFails(i) ==
    /\ Goto(i, "starting", "failing")
    /\ \/ mBox[i] = "made" /\ mBox' = [mBox EXCEPT ![i] = "closed"]
       \/ mBox[i] # "made" /\ UNCHANGED mBox
       \/ mBox[i] # "made" /\ mBox' = [mBox EXCEPT ![i] = "remnant"]
    /\ UNCHANGED <<mKind, mNeeds, stack, mCtx, mClosed, closePC, overtook, holder,
                   transport, protector, installed>>

-----------------------------------------------------------------------------
(* Close, and the unwinding of a test *)

\* The first call does the work, also one that overtakes Start, and one made
\* by a Start that failed; a later one returns at once.  A test closes its box
\* when it has failed to start or is over.
Close(i) ==
    /\ mPC[i] \in IF mKind[i] = "main" THEN {"made", "starting", "running", "failing"} ELSE {"running", "failing"}
    /\ ~mClosed[i]
    /\ mClosed' = [mClosed EXCEPT ![i] = TRUE]
    /\ closePC' = [closePC EXCEPT ![i] = "box"]
    /\ UNCHANGED <<mKind, mNeeds, stack, mPC, mBox, mCtx, overtook,
                   holder, transport, protector, installed>>

\* The context is cancelled and the box closed.  A test does not wait for it
\* longer than its timeout.
closeBoxWithTimeout(i) ==
    /\ closePC[i] = "box"
    /\ closePC' = [closePC EXCEPT ![i] = "xray"]
    /\ mCtx' = [mCtx EXCEPT ![i] = "cancelled"]
    /\ \/ mBox' = [mBox EXCEPT ![i] = "closed"]
       \/ mKind[i] = "probe" /\ mBox[i] = "up" /\ mBox' = [mBox EXCEPT ![i] = "closing"]
    /\ overtook' = [overtook EXCEPT ![i] = mPC[i] = "starting"]
    /\ UNCHANGED <<mKind, mNeeds, stack, mPC, mClosed, holder, transport, protector, installed>>

CloseReturnsLate(i) ==
    /\ mBox[i] = "closing" /\ mBox' = [mBox EXCEPT ![i] = "closed"]
    /\ UNCHANGED <<mKind, mNeeds, stack, mPC, mCtx, mClosed, closePC,
                   overtook, holder, transport, protector, installed>>

xrayClose(i) ==
    /\ closePC[i] = "xray"
    /\ closePC' = [closePC EXCEPT ![i] = IF mKind[i] = "main" THEN "release" ELSE "returned"]
    /\ stack' = [stack EXCEPT ![i] = {}]
    /\ UNCHANGED <<mKind, mNeeds, mPC, mBox, mCtx, mClosed, overtook,
                   holder, transport, protector, installed>>

releaseAnyProtector(i) ==
    /\ closePC[i] = "release"
    /\ closePC' = [closePC EXCEPT ![i] = "returned"]
    /\ protector' = NoBox
    /\ UNCHANGED <<mKind, mNeeds, stack, mPC, mBox, mCtx, mClosed,
                   overtook, holder, transport, installed>>

\* Only its own: another box may have installed itself since.
releaseProtector(i) ==
    /\ closePC[i] = "release"
    /\ closePC' = [closePC EXCEPT ![i] = "returned"]
    /\ protector' = IF protector = i THEN NoBox ELSE protector
    /\ UNCHANGED <<mKind, mNeeds, stack, mPC, mBox, mCtx, mClosed,
                   overtook, holder, transport, installed>>

-----------------------------------------------------------------------------
\* An outbound of the stack resolves its server: by the transport the resolver
\* has cached, else by the one of the box its holder knows.  Without a box the
\* lookup fails.
LookupIP(i) ==
    /\ stack[i] # {} /\ transport[i] = NoBox /\ holder[i] # NoBox
    /\ transport' = [transport EXCEPT ![i] = holder[i]]
    /\ UNCHANGED <<mKind, mNeeds, stack, mPC, mBox, mCtx, mClosed,
                   closePC, overtook, holder, protector, installed>>

Next == \E i \in MobileBoxes :
    \/ \E needs \in XrayNeeds : NewInstance(i, needs) \/ prepareTestEnv(i, needs)
    \/ startMainXray(i) \/ startXrayFull(i) \/ NewFails(i)
    \/ parseConfig(i) \/ BoxNew(i) \/ BoxNewFails(i) \/ Publish(i)
    \/ Start(i) \/ BoxStarts(i) \/ BoxStartFails(i)
    \/ Close(i) \/ closeBoxWithTimeout(i) \/ CloseReturnsLate(i) \/ xrayClose(i) \/ releaseProtector(i)
    \/ LookupIP(i)

-----------------------------------------------------------------------------
(* Properties *)

\* Xray sockets are kept off the tunnel of the newest box until that box has
\* been closed, whichever older boxes are closed or fail meanwhile.
NewestIsProtected ==
    installed # NoBox /\ closePC[installed] # "returned" => protector = installed

\* The Xray stack of an instance is up for as long as its box is, on the way up and
\* on every failing path.  An instance that could not be made leaves no stack, no
\* box and no live context, and so does one whose Close has returned; except that
\* of a box closed while it was starting, parts it brought up since may remain, and
\* that a test does not wait for a close that takes too long.
StackAroundBox == \A i \in MobileBoxes :
    /\ mKind[i] = "main" /\ mBox[i] \in {"made", "up"} => stack[i] = mNeeds[i]
    /\ mPC[i] = "failed" => stack[i] = {} /\ mCtx[i] # "live" /\ mBox[i] = "none"
    /\ closePC[i] = "returned" =>
          /\ stack[i] = {} /\ mCtx[i] = "cancelled"
          /\ mBox[i] \in {"closed"} \cup (IF overtook[i] THEN {"remnant"} ELSE {})
                                  \cup (IF mKind[i] = "probe" THEN {"closing"} ELSE {})

\* The resolver of a stack answers from the box it came with, never from that
\* of a test beside it, and finds it as soon as the box starts.
OwnBoxResolves == \A i \in MobileBoxes :
    /\ transport[i] \in {NoBox, i}
    /\ mPC[i] = "starting" => holder[i] = i

-----------------------------------------------------------------------------
(* What the proofs carry along *)

\* How far a box is on its way up and down, what there is of it, and who may
\* still act for it.
BeforeBox == {"idle", "main", "full", "parse", "new", "failed"}
PhoneInv ==
    /\ mPC \in [MobileBoxes -> BeforeBox \cup {"publish", "made", "refused", "starting", "running", "failing"}]
    /\ mKind \in [MobileBoxes -> {"none", "main", "probe"}]
    /\ mNeeds \in [MobileBoxes -> SUBSET {"main", "full"}]
    /\ stack \in [MobileBoxes -> SUBSET {"main", "full"}]
    /\ mBox \in [MobileBoxes -> {"none", "made", "up", "remnant", "closing", "closed"}]
    /\ mCtx \in [MobileBoxes -> {"none", "live", "cancelled"}]
    /\ mClosed \in [MobileBoxes -> BOOLEAN]
    /\ closePC \in [MobileBoxes -> {"idle", "box", "xray", "release", "returned"}]
    /\ overtook \in [MobileBoxes -> BOOLEAN]
    /\ holder \in [MobileBoxes -> MobileBoxes \cup {NoBox}]
    /\ transport \in [MobileBoxes -> MobileBoxes \cup {NoBox}]
    /\ protector \in MobileBoxes \cup {NoBox} /\ installed \in MobileBoxes \cup {NoBox}
    /\ \A i \in MobileBoxes :
          /\ mPC[i] \in {"idle", "main", "failed"} => stack[i] = {}
          /\ mPC[i] = "full" => stack[i] = mNeeds[i] \cap {"main"}
          /\ mPC[i] \in {"parse", "new"} => stack[i] = mNeeds[i]
          /\ mPC[i] \in BeforeBox => mBox[i] = "none" /\ ~mClosed[i]
          /\ mPC[i] = "failed" => mCtx[i] # "live"
          /\ mPC[i] \in BeforeBox \ {"new", "failed"} => mCtx[i] = "none"
          /\ mClosed[i] <=> closePC[i] # "idle"
          /\ mBox[i] \in {"made", "up"} => stack[i] = mNeeds[i]
          /\ closePC[i] \in {"xray", "release", "returned"} =>
                mCtx[i] = "cancelled" /\ mBox[i] \in {"remnant", "closing", "closed"}
          /\ mBox[i] = "remnant" => overtook[i]
          /\ mBox[i] = "closing" => mKind[i] = "probe" /\ mPC[i] # "starting"
          /\ mBox[i] = "up" => mPC[i] = "running"
          /\ mPC[i] \in {"publish", "made", "starting"} /\ closePC[i] \in {"idle", "box"} =>
                mBox[i] = "made"
          /\ mPC[i] = "starting" /\ mBox[i] # "made" => overtook[i]
          /\ closePC[i] \in {"release", "returned"} => stack[i] = {}
          /\ holder[i] \in {NoBox, i} /\ transport[i] \in {NoBox, i}
          /\ mPC[i] \in {"made", "starting"} => holder[i] = i
    /\ NewestIsProtected

=============================================================================
