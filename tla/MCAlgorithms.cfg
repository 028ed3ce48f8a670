SPECIFICATION Spec
CONSTANTS
    TopN = 3
    Menus = {1, 2, 3, 4, 5}
    MaxCount = 3
    Inline = {"inline"}
    Preflight = {"docker"}
    Oracles = {"oracle"}
    HarnessUnit = "harness.unit"
    GradleTest = "gradle.test"
    MaxResults = 5
    MaxTokens = 2
    Blank = Blank
    Wild = Wild
    Control = Control
INVARIANTS RankingIsRight GateIsPathwise EveryRiskIsChecked RunnerIsFailClosed PassNeedsEveryCheck
    PreparedPlanIsUsable AcceptedPolicyIsEnforced PathsSurviveTransport DocCheckIsRight
