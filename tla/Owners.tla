------------------------------- MODULE Owners -------------------------------
(***************************************************************************)
(* What owners and members of a business do apart from its requests: who   *)
(* belongs to it (Accounts), its subscription checkouts (Checkout), its    *)
(* opening hours (Hours), its profile and areas (Profile), and the keys    *)
(* that sign its tokens (JwksCache).  The five share no variable, so a     *)
(* behaviour is one of a part, `part', while the others rest in an initial *)
(* state.                                                                  *)
(***************************************************************************)
EXTENDS Integers, Sequences, FiniteSets

CONSTANTS
  None,
  Users, Orgs, ClerkRoles, MaxChanges, MaxTokens,   \* of Accounts
  Keys, Plans, MaxSessions, MaxTries,               \* of Checkout
  Replacements, Weeks,                              \* of Hours
  Edits, Bodies, Areas, AreaKeys, Key, MaxAreas,    \* of Profile
  Tokens, Kids, FreshFor, Timeout, MaxTime          \* of JwksCache

VARIABLES
  part,
  org, clerk, accounts, tokens, posted, attempts, changes, users, business, member, call, update, last,
  rows, replacement, week, behind,
  profile, areas, edit, stale, lists,
  customers, known, mapped, sessions, made, saved, checkout, holder, answered,
  now, since, until, keys, loaded, check

Members == INSTANCE Accounts
Subscribing == INSTANCE Checkout WITH call <- checkout
Schedule == INSTANCE Hours WITH
  Calls <- Replacements, Requests <- Weeks, call <- replacement, last <- week
Signing == INSTANCE JwksCache WITH Requests <- Tokens, call <- check
Reachable == INSTANCE Profile WITH Calls <- Edits, Keys <- AreaKeys, call <- edit

ASSUME OwnersAssumption ==
  /\ Members!AccountsAssumption /\ Subscribing!CheckoutAssumption /\ Schedule!HoursAssumption
  /\ Signing!JwksAssumption /\ Reachable!ProfileAssumption
-----------------------------------------------------------------------------
memberVars == <<org, clerk, accounts, tokens, posted, attempts, changes, users, business, member, call,
                update, last>>
hourVars == <<rows, replacement, week, behind>>
profileVars == <<profile, areas, edit, stale, lists>>
checkoutVars == <<customers, known, mapped, sessions, made, saved, checkout, holder, answered>>
keyVars == <<now, since, until, keys, loaded, check>>
allVars == <<part, memberVars, hourVars, profileVars, checkoutVars, keyVars>>

ProfileRests ==
  /\ Reachable!Init /\ areas = {}
  /\ profile = [mode |-> "fixed", active |-> FALSE, located |-> FALSE, pickup |-> FALSE]
CheckoutRests == Subscribing!Init /\ mapped = 0

Init ==
  /\ Members!Init /\ Schedule!Init /\ Signing!Init
  /\ \/ part \in {"members", "hours", "keys"} /\ ProfileRests /\ CheckoutRests
     \/ part = "profile" /\ Reachable!Init /\ CheckoutRests
     \/ part = "checkouts" /\ ProfileRests /\ Subscribing!Init

Next ==
  \/ /\ part = "members" /\ Members!Next
     /\ UNCHANGED <<part, hourVars, profileVars, checkoutVars, keyVars>>
  \/ /\ part = "hours" /\ Schedule!Next
     /\ UNCHANGED <<part, memberVars, profileVars, checkoutVars, keyVars>>
  \/ /\ part = "profile" /\ Reachable!Next
     /\ UNCHANGED <<part, memberVars, hourVars, checkoutVars, keyVars>>
  \/ /\ part = "checkouts" /\ Subscribing!Next
     /\ UNCHANGED <<part, memberVars, hourVars, profileVars, keyVars>>
  \/ /\ part = "keys" /\ Signing!Next
     /\ UNCHANGED <<part, memberVars, hourVars, profileVars, checkoutVars>>

Spec == Init /\ [][Next]_allVars
-----------------------------------------------------------------------------
\* Changes of a member that are delivered one by one, each with all its attempts, leave the
\* member as at Clerk, whatever is delivered twice or at once, whoever is deleted and
\* whichever requests write users in between; and a creation
\* that answered an error leaves no business on sale, also when its commit had been done.
SyncedWhenApart ==
  Members!TypeOK /\ Members!SyncedWhenApart /\ Members!FailedCreationIsArchived

\* README.md:81: a role takes a token and a row.  Who is no longer an admin at Clerk updates
\* a business only with an old token and while a change is being delivered or came out of order.
StaleRoleNeedsBoth == Members!StaleRoleNeedsBoth

\* The days of the week committed last are all there, whatever was written with it.
LastWeekIsWhole == Schedule!TypeOK /\ Schedule!LastWeekIsWhole

\* A replacement of the hours during which no other committed leaves its week alone.
ReplacedWhenApart == Schedule!ReplacedWhenApart

\* README.md: service areas are "replaced atomically with the business profile": one list
\* that somebody sent, never parts of two.  Mode, coordinates and areas are ones a body may
\* ask for, whatever bodies left out, as long as no update is written on a profile that
\* changed after it was read.
ValidUnlessStale ==
  Reachable!TypeOK /\ Reachable!AreasOfOneList /\ Reachable!ValidUnlessStale

\* Two checkouts of a customer never wait for the buyer at once, since paying both would be
\* two subscriptions; what is answered is a checkout of the customer the row has, not of one
\* whose transaction was rolled back; and, internal/billing/handler.go, "Never reuse a
\* checkout for another selection".
OneOpenSession ==
  /\ Subscribing!TypeOK /\ Subscribing!AnsweredIsOfTheRow
  /\ Subscribing!OneOpenSession /\ Subscribing!SelectionKept

\* A token signed with a withdrawn key is refused once the set that had it is stale, also
\* when its answer is stored late; and none is answered "key not found" when its key has
\* been published for longer than an answer of the key server can be late.
KeysAreCurrent ==
  Signing!TypeOK /\ Signing!WithdrawnIsRefused /\ Signing!PublishedIsFound
=============================================================================
