SPECIFICATION RequestSpec
CONSTANTS
    RequestTypes = {"REGISTRY_ENTRY_PRESENT", "BLOCK_ITEM_ASSOCIATION", "RECIPE_LOADED",
             "ITEM_COMPONENT_STATE", "BLOCK_ENTITY_STATE", "INVENTORY_STATE",
             "TAG_MEMBERSHIP", "RECIPE_MATCH", "LOOT_RESULT"}
    MaxRequests = 2
    MaxOdd = 1
INVARIANTS LaunchedIsChecked SelectorIsLookedAt
CHECK_DEADLOCK FALSE
