------------------------------- MODULE Pages -------------------------------
(***************************************************************************)
(* What the pages let a browser send: the forms of the templates and of    *)
(* the terminal's script, with the path each posts to, the CSRF token it   *)
(* carries and the values it offers in radio buttons, lists, boxes and     *)
(* hidden fields.  A page is drawn from rows; a row is its status here.    *)
(* What is typed into a field, and how a page looks, is left out.          *)
(***************************************************************************)
EXTENDS Naturals

TicketRows == {"pending", "paid", "dispensing", "filled", "confirmed", "voided"}
PlantRows == {"provisioning", "active", "suspended", "closed"}
MemberRows == {"owner", "manager on", "manager off", "cashier on", "cashier off"}

Form(path, token) == [to |-> path, token |-> token, sends |-> {}]
Choosing(path, token, name, values) ==
    [to |-> path, token |-> token, sends |-> {<<name, v>> : v \in values}]

\* themedSelect: a required list sends no option without a value ("Select state").
Offered(options) == options \ {""}

PumpChoices == Offered({"working", "not_working", "maintenance"})

StateChoices == Offered({"", "a state"})

----------------------------------------------------------------------------
(* The customer's pages. *)

BuyForm == Choosing("/tickets", "public", "channel", {"transfer", "terminal", "ussd"})

LookupForm == Form("/receipts/lookup", "public")

\* The code's form, and "Resend code" below it.
VerifyForms == {Form("/receipts/verify", "public"), LookupForm}

\* The receipt that is selected, if it was filled and not yet confirmed.
ConfirmForm(rows) ==
    {Form("/tickets/{reference}/confirm", "receipts") : r \in rows \cap {"filled"}}

\* A review that was given is shown without a form.
ReviewForm(rows) ==
    {Choosing("/reviews/{token}", "public", "rating", {"1", "2", "3", "4", "5"}) : r \in rows \cap {"asked"}}

----------------------------------------------------------------------------
(* The terminal: one page, drawn anew by its script.  The script puts the  *)
(* session's token in a header once there is a session, and the public     *)
(* token in the field of the PIN form.                                     *)

PINForm == Form("/terminal/pin", "public")

TerminalForms ==
    {Form(p, "staff") : p \in {
        "/terminal/redeem", "/terminal/fill", "/terminal/cash-sale",
        "/terminal/receipt/close", "/terminal/receipt/bulk-close", "/terminal/price",
        "/terminal/logout", "/terminal/shift/end"}}
    \cup {Choosing("/terminal/pumps", "staff", "status", PumpChoices),
          Choosing("/terminal/staff/status", "staff", "active", {"true", "false"})}

----------------------------------------------------------------------------
(* The owner's pages. *)

OwnerLoginForm == Form("/owner/login", "public")

ForgotForm(rows) == {Form("/owner/forgot-password", "public") : r \in rows \cap {"ask"}}

\* Only behind a link that Peek finds.
ResetForm(rows) == {Form("/owner/reset-password", "public") : r \in rows \cap {"link"}}

OwnerLogoutForm == Form("/owner/logout", "owner")

\* "Void", in the rows of the latest sales.
VoidForms(rows) ==
    {Form("/tickets/{reference}/void", "owner") : r \in rows \cap {"pending", "paid"}}

\* The week; the button is for those who manage pumps, and owners do.
HoursForm == Choosing("/owner/hours", "owner", "closed", {"true"})

PumpForms(rows) ==
    {Choosing("/owner/pumps", "owner", "status", PumpChoices) : r \in rows \cap PumpChoices}

AddPumpForm == Choosing("/owner/pumps", "owner", "status", {"working"})

PermissionForms(rows) ==
    {[to |-> "/owner/staff/{id}/permissions", token |-> "owner",
      sends |-> {"can_edit_price", "can_manage_staff", "can_manage_pumps"} \X {"true"}]
        : r \in rows \cap {"manager on", "manager off"}}

\* "Deactivate" and "Activate"; the owner's own row has neither.
DeactivateForms(rows) ==
    {Choosing("/owner/staff/{id}/status", "owner", "active", {"false"})
        : r \in rows \cap {"manager on", "cashier on"}}

ActivateForms(rows) ==
    {Choosing("/owner/staff/{id}/status", "owner", "active", {"true"})
        : r \in rows \cap {"manager off", "cashier off"}}

AddStaffForm == Choosing("/owner/staff", "owner", "role", Offered({"cashier", "operator", "manager"}))

PriceForm == Form("/owner/prices", "owner")

SettingsForm == Form("/owner/settings", "owner")

PasswordForm(rows) == {Form("/owner/password", "owner") : r \in rows \cap {"ask"}}

Dashboard(rows) ==
    {OwnerLogoutForm, HoursForm, AddPumpForm, AddStaffForm, PriceForm, SettingsForm}
    \cup VoidForms(rows) \cup PumpForms(rows) \cup PermissionForms(rows)
    \cup DeactivateForms(rows) \cup ActivateForms(rows)

----------------------------------------------------------------------------
(* The administrators' pages and the public ones of the platform. *)

AdminLoginForm == Form("/admin/login", "public")

AdminLogoutForm == Form("/admin/logout", "admin")

PlantStatusForm(status) == Choosing("/admin/plants/{id}/status", "admin", "status", {status})

\* The buttons of a plant's row, by its status; a closed plant has none.
PlantStatusForms(row) ==
    {PlantStatusForm(s) : s \in
        IF row \in {"provisioning", "suspended"} THEN {"active"} ELSE {}}
    \cup {PlantStatusForm(s) : s \in IF row = "active" THEN {"suspended"} ELSE {}}
    \cup {PlantStatusForm(s) : s \in IF row = "suspended" THEN {"closed"} ELSE {}}

\* "Activate", on both lists of applications.
ApplicationForms(rows) == {PlantStatusForm("active") : r \in rows \cap {"provisioning"}}

PlantsTable(rows) == UNION {PlantStatusForms(r) : r \in rows \cap PlantRows}

AdminConsole(rows) == {AdminLogoutForm} \cup ApplicationForms(rows) \cup PlantsTable(rows)

\* The plant has no subaccount yet.
SubaccountForm(rows) ==
    {Form("/admin/plants/{id}/subaccount", "admin") : r \in rows \cap {"no subaccount"}}

MessagingForm == Form("/admin/plants/{id}/messaging", "admin")

AdminPlantDetail(rows) ==
    {AdminLogoutForm, MessagingForm} \cup PlantsTable(rows) \cup SubaccountForm(rows)

\* Both tabs of /get-started, until one was submitted.
OwnerSignupForm(rows) ==
    {[to |-> "/get-started", token |-> "public",
      sends |-> {<<"accept_terms", "yes">>} \cup ({"state"} \X StateChoices)] : r \in rows \cap {"ask"}}

BuyerSignupForm(rows) ==
    {[to |-> "/get-started/buyer", token |-> "public",
      sends |-> {<<"accept_contact", "yes">>} \cup ({"buyer_state"} \X StateChoices)] : r \in rows \cap {"ask"}}

\* "Was this article helpful?": a beacon of the page's script, without a token.
FeedbackForm == Choosing("/help/feedback", "none", "helpful", {"yes", "no"})
=============================================================================
