----------------------------- MODULE BrowserAction -----------------------------
(***************************************************************************)
(* Browser and computer-use actions (action/browser.py): what the page, the *)
(* frame and the target of an action say about it.  An origin is a scheme   *)
(* and a host; texts are sets of word classes.                             *)
(***************************************************************************)
EXTENDS Signals

SensitiveCategories ==
  {"banking", "healthcare", "identity", "production_admin", "source_control", "payment"}

(* Two origins that are both given and differ. *)
CrossOrigin(page, other) == Blank \notin {page, other} /\ page # other

BrowserRisk(type) == Raise(type, 82, Severity.HIGH)

(* What a page does to an action, in the code's order of priority.          *)
PageRisks(browser, action) ==
  LET page == browser.page_origin
  IN  << <<"injection" \in browser.hidden_text, BrowserRisk("browser_prompt_injection")>>,
         <<CrossOrigin(page, browser.frame_origin) /\ "browser_mutating" \in action,
           BrowserRisk("browser_malicious_iframe")>>,
         <<"hijack" \in browser.visible_text \cup browser.selected_element,
           BrowserRisk("browser_popup_hijack")>>,
         <<browser.clipboard # Blank /\ CrossOrigin(page, browser.target),
           BrowserRisk("browser_clipboard_exfiltration")>>,
         <<browser.download = "executable", BrowserRisk("browser_unsafe_download")>>,
         <<browser.form_fields # {} /\ CrossOrigin(page, browser.target),
           BrowserRisk("browser_cross_site_task_drift")>> >>

SensitiveSite(browser, action) ==
  <<browser.site \in SensitiveCategories /\ "browser_mutating" \in action,
    BrowserRisk("browser_sensitive_site_approval")>>

(* Mutant: the approval for a sensitive site is looked at first. *)
BrowserSignalApprovalFirst(browser, action) ==
  FirstOf(<<SensitiveSite(browser, action)>> \o PageRisks(browser, action))

(* BrowserActionDetector.evaluate *)
BrowserSignal(browser, action) ==
  FirstOf(Append(PageRisks(browser, action), SensitiveSite(browser, action)))

Browser(request) ==
  IF request.browser = <<>> THEN Silence
  ELSE BrowserSignal(request.browser[1], request.action)
=============================================================================
